---- MODULE Spec2Model ----
(***************************************************************************)
(* The semantic-cache-augmented query pipeline of the observability agent: *)
(* ObservabilityAgent.query and its helpers, SemanticMemory.search/store,  *)
(* LLMOrchestrator.classifyIntent/synthesize/generateResponse and          *)
(* MCPRouter.route.                                                        *)
(*                                                                         *)
(* Every await of query() is a suspension point: an action of the model    *)
(* is the resolution of one external call followed by the synchronous code *)
(* up to the next await.  The embedding service, the vector index, the two *)
(* oracles, the capability providers and the durable store are the         *)
(* environment: each resolves with one of the outcomes of its interface.   *)
(*                                                                         *)
(* Conventions: a text is a record with a field k; similarity scores are   *)
(* integers in units of 1/10000 (0.85 is 8500); confidences are in tenths; *)
(* null and undefined are the strings "null" and "undefined" where the     *)
(* value is otherwise a string, and [some |-> FALSE] where it is a record. *)
(***************************************************************************)
EXTENDS Integers, Sequences, FiniteSets, TLC

VARIABLES
    state,      \* [session -> AgentState], the in-memory this.state of each instance
    stored,     \* [session -> optional AgentState], ctx.storage key 'state'
    index,      \* the vector index (env.VECTORIZE): sequence of inserted entries
    calls,      \* [call id -> the position and locals of one query() invocation]
    fin,        \* input of the function under test (function-level specifications)
    fout        \* its output

vars == <<state, stored, index, calls, fin, fout>>

----------------------------------------------------------------------------
(* Bounds of the model *)

MaxCalls == 2          \* query() invocations in one behaviour
MaxFaults == 1         \* external calls that fail in one behaviour
MaxAppends == 25       \* addToHistory calls in one behaviour of SpecHistory
MaxToolCalls == 2      \* length of the oracle's tool_calls list in SpecClassify
MaxEntries == 3        \* entries of the index drawn in SpecSearch
MaxClock == 2          \* milliseconds the clock advances in SpecIds
MaxStores == 2         \* store calls reaching the insert in SpecIds
NearCapTurns == 9      \* turns in the history when SpecConcurrent begins
MaxLongStores == 2     \* store calls in one behaviour of SpecEmbed
MaxTurns == 6          \* messages appended in one behaviour of SpecContext

(* Program constants *)

SIMILARITY_THRESHOLD == 8500
HistoryCap == 20
TopK == 3
ContextWindow == 4
HistoryWindow == 10

----------------------------------------------------------------------------
(* Values *)

None == [some |-> FALSE]
Some(v) == [some |-> TRUE, v |-> v]

Sessions == {"A", "B"}
Caps == {"observability", "documentation", "bindings"}
CallIds == 1..MaxCalls

Lit(s) == [k |-> "lit", s |-> s]

(* What the code treats as text: everything it returns is built from these. *)
TextKinds == {"query", "llm", "lit", "rawFallback", "errorResponse", "cached"}
IsText(v) == v.k \in TextKinds

Min(a, b) == IF a < b THEN a ELSE b
Max(a, b) == IF a > b THEN a ELSE b

Last(seq, n) == SubSeq(seq, Max(1, Len(seq) - n + 1), Len(seq))

----------------------------------------------------------------------------
(* Texts.  A user or oracle text is run-length encoded: <<[c |-> "a", n |-> 3]>>
   is "aaa".  String.prototype.substring(0, n) is exact on runs and on
   literals; on a composed text longer than n it is the symbolic prefix. *)

Run(c, n) == [c |-> c, n |-> n]

RECURSIVE RunsLen(_)
RunsLen(runs) == IF runs = <<>> THEN 0 ELSE Head(runs).n + RunsLen(Tail(runs))

RECURSIVE TakeRuns(_, _)
TakeRuns(runs, n) ==
    IF n <= 0 \/ runs = <<>> THEN <<>>
    ELSE IF Head(runs).n >= n THEN <<Run(Head(runs).c, n)>>
    ELSE <<Head(runs)>> \o TakeRuns(Tail(runs), n - Head(runs).n)

UserText(runs) == [k |-> "query", runs |-> runs]
OracleText(runs) == [k |-> "llm", runs |-> runs]

(* The literals of the source. *)
RawFallbackPrefix ==
    "I found some information related to your query, but I'm having trouble formatting it. Here's the raw data:"
SynthFallbackText ==
    "I apologize, but I encountered an error processing your request. Please try again or rephrase your question."
DirectNoTextText ==
    "I understand your question, but I need more specific information to help. Could you provide more details?"
DirectErrorText ==
    "I apologize, but I encountered an error processing your request. Please try rephrasing your question."
ErrorSuggestion ==
    "Please try rephrasing your query or check your Cloudflare account permissions."
SYSTEM_PROMPT == "You are an expert Cloudflare Workers observability and troubleshooting assistant."

(* A lower bound of the length of a text; exact for runs and literals.  The
   serialized routed data is never shorter than its suggestion or note field. *)
TextLen(t) ==
    CASE t.k \in {"query", "llm"} -> RunsLen(t.runs)
      [] t.k = "lit" -> Len(t.s)
      [] t.k = "rawFallback" -> Len(RawFallbackPrefix) + 2 + Len(ErrorSuggestion)
      [] t.k = "prefix" -> t.n
      [] OTHER -> 207

Substring(t, n) ==
    IF TextLen(t) <= n THEN t
    ELSE IF t.k \in {"query", "llm"} THEN [t EXCEPT !.runs = TakeRuns(t.runs, n)]
    ELSE [k |-> "prefix", of |-> t, n |-> n]

(* The user texts and oracle texts of the model. *)
QA == UserText(<<Run("a", 12)>>)
QB == UserText(<<Run("b", 12)>>)
QC == UserText(<<Run("c", 12)>>)
T1 == OracleText(<<Run("r", 40)>>)
T2 == OracleText(<<Run("s", 300)>>)
Queries == {QA, QB, QC}
LLMTexts == {T1, T2}

----------------------------------------------------------------------------
(* Routed data and tool arguments *)

NullData == [k |-> "null"]
MockData(source, query, param) ==
    [k |-> "mock", source |-> source, query |-> query, param |-> param]
ErrorPayload(message) ==
    [k |-> "error", message |-> message, suggestion |-> ErrorSuggestion]
(* Data JSON.stringify throws on (a cycle, a BigInt). *)
CyclicData(source) == [k |-> "cyclic", source |-> source]
DataTruthy(d) == d.k # "null"

NoParams == {}
Lookup(params, key, default) ==
    IF \E p \in params : p[1] = key
    THEN (CHOOSE p \in params : p[1] = key)[2]
    ELSE default

(* An operation's completion: its value, or the exception it throws. *)
Return(v) == [tag |-> "return", value |-> v]
Throw(msg) == [tag |-> "throw", error |-> msg]

----------------------------------------------------------------------------
(* SemanticMemory *)

EMBED_MAX_CHARS == 1000

(* The embedding service is a function of the text it is sent; the vector is
   named by that text. *)
EmbedOutcomes == {"ok", "malformed", "throw"}

(* A malformed response is taken for a vector. *)
generateEmbedding_acceptsMalformed(text, out) ==
    LET truncatedText == Substring(text, EMBED_MAX_CHARS)
    IN  IF out \in {"ok", "malformed"} THEN Some(truncatedText) ELSE None

(* The text is sent whole. *)
generateEmbedding_untruncated(text, out) ==
    IF out = "ok" THEN Some(text) ELSE None

generateEmbedding(text, out) ==
    LET truncatedText == Substring(text, EMBED_MAX_CHARS)
    IN  IF out = "ok" THEN Some(truncatedText) ELSE None

(* The similarity the index reports between two vectors. *)
Similarity(u, v) ==
    IF u = v THEN 10000
    ELSE IF {u, v} = {QA, QB} THEN SIMILARITY_THRESHOLD
    ELSE IF {u, v} = {QA, QC} THEN SIMILARITY_THRESHOLD - 1
    ELSE 3000

Match(score, e) == [score |-> score, metadata |-> e.metadata]

(* vectorize.query(embedding, {topK}): every list of the topK best entries in
   non-increasing score order; entries of equal score come in any order. *)
QueryIndex(idx, vec, topK) ==
    LET n == Min(topK, Len(idx))
        sc(i) == Similarity(vec, idx[i].values)
        picks == { p \in [1..n -> 1..Len(idx)] :
                     /\ \A i, j \in 1..n : i # j => p[i] # p[j]
                     /\ \A i \in 1..n : i < n => sc(p[i]) >= sc(p[i + 1])
                     /\ \A r \in 1..Len(idx) :
                            (\A i \in 1..n : p[i] # r) =>
                                \A i \in 1..n : sc(p[i]) >= sc(r) }
    IN  { [i \in 1..n |-> Match(sc(p[i]), idx[p[i]])] : p \in picks }

(* The threshold is exclusive. *)
searchResult_exclusive(matches, threshold) ==
    IF Len(matches) > 0 /\ matches[1].score > threshold
    THEN Some([score |-> matches[1].score,
               question |-> matches[1].metadata.question,
               answer |-> matches[1].metadata.answer,
               mcpSource |-> matches[1].metadata.mcpSource])
    ELSE None

(* search, from the resolved index query on: lines 62-77. *)
searchResult(matches, threshold) ==
    IF Len(matches) > 0 /\ matches[1].score >= threshold
    THEN Some([score |-> matches[1].score,
               question |-> matches[1].metadata.question,
               answer |-> matches[1].metadata.answer,
               mcpSource |-> matches[1].metadata.mcpSource])
    ELSE None

(* search as a function of what its two external calls resolve to. *)
search(query, threshold, embedOut, queryOut) ==
    LET embedding == generateEmbedding(query, embedOut)
    IN  IF ~embedding.some THEN None
        ELSE IF queryOut.kind = "throw" THEN None
        ELSE searchResult(queryOut.matches, threshold)

(* A metadata value the index cannot hold (a function) is dropped by the
   serialization of the insert request. *)
FnObject == "[Function: Object]"
MetadataValue(v) == IF v = FnObject THEN "undefined" ELSE v

(* The entry is stored before the answer is known: it holds the question. *)
storeEntry_question(question, answer, mcpSource, embedding) ==
    [values |-> embedding,
     metadata |-> [question |-> question, answer |-> question,
                   mcpSource |-> MetadataValue(mcpSource)]]

(* An answer of the general path is stored under the tag route would give it. *)
storeEntry_defaultTag(question, answer, mcpSource, embedding) ==
    [values |-> embedding,
     metadata |-> [question |-> question, answer |-> answer,
                   mcpSource |-> IF mcpSource = "none" THEN "documentation"
                                 ELSE MetadataValue(mcpSource)]]

(* The vector store() inserts: lines 108-119. *)
storeEntry(question, answer, mcpSource, embedding) ==
    [values |-> embedding,
     metadata |-> [question |-> question, answer |-> answer,
                   mcpSource |-> MetadataValue(mcpSource)]]

----------------------------------------------------------------------------
(* LLMOrchestrator.classifyIntent *)

NULL == "null"
Truthy(v) == v # NULL

ToolCall(name, args) == [name |-> name, arguments |-> args]

(* A plain object literal answers map[key] for the keys it inherits from
   Object.prototype too. *)
InheritedKeys == {"constructor"}

mapToolToIntentType(toolName) ==
    CASE toolName = "query_observability" -> "error_logs"
      [] toolName = "search_docs" -> "how_to"
      [] toolName = "query_bindings" -> "list_resources"
      [] toolName \in InheritedKeys -> FnObject
      [] OTHER -> "general"

(* A name the table lacks falls back to the documentation capability. *)
mapToolToMCP_defaultDocs(toolName) ==
    CASE toolName = "query_observability" -> "observability"
      [] toolName = "search_docs" -> "documentation"
      [] toolName = "query_bindings" -> "bindings"
      [] toolName \in InheritedKeys -> FnObject
      [] OTHER -> "documentation"

mapToolToMCP(toolName) ==
    CASE toolName = "query_observability" -> "observability"
      [] toolName = "search_docs" -> "documentation"
      [] toolName = "query_bindings" -> "bindings"
      [] toolName \in InheritedKeys -> FnObject
      [] OTHER -> NULL

(* tool-definitions.ts: the static table from intent types to capabilities. *)
INTENT_TO_MCP_MAP ==
    [error_logs |-> "observability", performance |-> "observability",
     how_to |-> "documentation", api_reference |-> "documentation",
     list_resources |-> "bindings", inspect_config |-> "bindings"]

Intent(type, confidence, targetMCP, parameters) ==
    [type |-> type, confidence |-> confidence, targetMCP |-> targetMCP,
     parameters |-> parameters]

(* The error fallback names a capability. *)
classifyFallbackIntent_routed == Intent("how_to", 3, "documentation", NoParams)

classifyFallbackIntent == Intent("general", 3, NULL, NoParams)

(* The last tool call is read in place of the first. *)
classifyIntent_lastTool(resp) ==
    IF resp.kind = "throw" THEN classifyFallbackIntent
    ELSE IF resp.kind = "ok" /\ Len(resp.tool_calls) > 0
    THEN LET toolCall == resp.tool_calls[Len(resp.tool_calls)]
         IN  IF toolCall.name = NULL THEN classifyFallbackIntent
             ELSE Intent(mapToolToIntentType(toolCall.name), 9,
                         mapToolToMCP(toolCall.name),
                         IF toolCall.arguments.some THEN toolCall.arguments.v
                         ELSE NoParams)
    ELSE Intent("general", 5, NULL, NoParams)

(* resp: what ai.run(HERMES_MODEL) resolves to.  kind "throw": the call
   rejects; "null": a falsy response; "ok": a response whose tool_calls is a
   (possibly empty) list of tool calls, the entry "null" being a null entry,
   whose .name throws. *)
classifyIntent(resp) ==
    IF resp.kind = "throw" THEN classifyFallbackIntent
    ELSE IF resp.kind = "ok" /\ Len(resp.tool_calls) > 0
    THEN LET toolCall == resp.tool_calls[1]
         IN  IF toolCall.name = NULL THEN classifyFallbackIntent
             ELSE Intent(mapToolToIntentType(toolCall.name), 9,
                         mapToolToMCP(toolCall.name),
                         IF toolCall.arguments.some THEN toolCall.arguments.v
                         ELSE NoParams)
    ELSE Intent("general", 5, NULL, NoParams)

----------------------------------------------------------------------------
(* MCPRouter *)

MCPResult(source, data) == [source |-> source, data |-> data, cached |-> FALSE]

(* The three providers.  In the repository they are stubs that build
   demonstration data; the model lets a provider also fail, or resolve with
   data that cannot be serialized, as the call that replaces the stub can. *)
ProviderOutcomes == {"ok", "throw", "cyclic"}

queryObservability(query, parameters) ==
    MCPResult("observability",
              MockData("observability", query, Lookup(parameters, "timeRange", "1h")))
searchDocumentation(query, parameters) ==
    MCPResult("documentation",
              MockData("documentation", query, Lookup(parameters, "product", "workers")))
queryBindings(query, parameters) ==
    MCPResult("bindings",
              MockData("bindings", query, Lookup(parameters, "resourceType", "all")))

(* The result carries the documentation tag whatever failed. *)
routeError_untagged(intent, message) == MCPResult("documentation", ErrorPayload(message))

(* The failure result names no capability. *)
routeError_unknownSource(intent, message) == MCPResult("unknown", ErrorPayload(message))

(* The catch of route: lines 63-77. *)
routeError(intent, message) == MCPResult(intent.targetMCP, ErrorPayload(message))

(* The switch of route (lines 49-62): the provider's result, or the exception
   the provider or the default branch throws.  out is what the provider call
   resolves to, read only when a provider is called. *)
routeSwitch(intent, query, out) ==
    IF intent.targetMCP \notin Caps THEN Throw("Unknown MCP target")
    ELSE IF out = "throw" THEN Throw("provider failed")
    ELSE IF out = "cyclic"
         THEN Return(MCPResult(intent.targetMCP, CyclicData(intent.targetMCP)))
    ELSE CASE intent.targetMCP = "observability" ->
                  Return(queryObservability(query, intent.parameters))
           [] intent.targetMCP = "documentation" ->
                  Return(searchDocumentation(query, intent.parameters))
           [] intent.targetMCP = "bindings" ->
                  Return(queryBindings(query, intent.parameters))

(* A null target is sent to the documentation provider. *)
route_nullToDocs(intent, query, out) ==
    IF ~Truthy(intent.targetMCP) THEN searchDocumentation(query, intent.parameters)
    ELSE LET r == routeSwitch(intent, query, out)
         IN  IF r.tag = "throw" THEN routeError(intent, r.error) ELSE r.value

(* route(intent, query): lines 36-78. *)
route(intent, query, out) ==
    IF ~Truthy(intent.targetMCP) THEN MCPResult("documentation", NullData)
    ELSE LET r == routeSwitch(intent, query, out)
         IN  IF r.tag = "throw" THEN routeError(intent, r.error) ELSE r.value

(* Whether route calls a provider for this intent. *)
routeCallsProvider(intent) == intent.targetMCP \in Caps

----------------------------------------------------------------------------
(* LLMOrchestrator.synthesize / generateResponse *)

(* What ai.run(LLAMA_MODEL) resolves to: text, a response without text (or
   with the empty string), or a rejection. *)
GenOk(text) == [kind |-> "ok", text |-> text]
GenOutcomesOf(texts) ==
    {GenOk(t) : t \in texts} \cup {[kind |-> "notext"], [kind |-> "throw"]}

JSONstringify(data) ==
    IF data.k = "cyclic" THEN Throw("Converting circular structure to JSON")
    ELSE Return([k |-> "json", data |-> data])

Message(role, content) == [role |-> role, content |-> content]

(* The backend data is pushed before the context. *)
synthesizeMessages_dataFirst(query, mcpData, context) ==
    LET json == JSONstringify(mcpData)
        m1 == <<Message("system", [k |-> "lit", s |-> SYSTEM_PROMPT])>>
        m2 == IF context # <<>>
              THEN <<Message("system", [k |-> "previousContext", context |-> context])>>
              ELSE <<>>
        m3 == IF DataTruthy(mcpData)
              THEN <<Message("system", [k |-> "mcpResponse", json |-> json.value])>>
              ELSE <<>>
    IN  IF DataTruthy(mcpData) /\ json.tag = "throw" THEN json
        ELSE Return(m1 \o m3 \o m2 \o <<Message("user", query)>>)

(* The message list synthesize builds before it calls the oracle: lines
   110-137.  An empty context and null data are falsy and add no message. *)
synthesizeMessages(query, mcpData, context) ==
    LET json == JSONstringify(mcpData)
        m1 == <<Message("system", [k |-> "lit", s |-> SYSTEM_PROMPT])>>
        m2 == IF context # <<>>
              THEN <<Message("system", [k |-> "previousContext", context |-> context])>>
              ELSE <<>>
        m3 == IF DataTruthy(mcpData)
              THEN <<Message("system", [k |-> "mcpResponse", json |-> json.value])>>
              ELSE <<>>
    IN  IF DataTruthy(mcpData) /\ json.tag = "throw" THEN json
        ELSE Return(m1 \o m2 \o m3 \o <<Message("user", query)>>)

createFallbackResponse(query, mcpData) ==
    IF DataTruthy(mcpData)
    THEN LET json == JSONstringify(mcpData)
         IN  IF json.tag = "throw" THEN json
             ELSE Return([k |-> "rawFallback", data |-> mcpData])
    ELSE Return([k |-> "lit", s |-> SynthFallbackText])

(* synthesize, given what the oracle call resolves to when it is made. *)
synthesize(query, mcpData, context, out) ==
    IF synthesizeMessages(query, mcpData, context).tag = "throw"
    THEN createFallbackResponse(query, mcpData)
    ELSE IF out.kind = "ok" THEN Return(out.text)
    ELSE createFallbackResponse(query, mcpData)

(* Whether synthesize reaches its oracle call. *)
synthesizeCallsOracle(query, mcpData, context) ==
    synthesizeMessages(query, mcpData, context).tag = "return"

(* The error fallback is the one synthesize uses. *)
generateResponse_sharedFallback(query, out) ==
    IF out.kind = "ok" THEN out.text
    ELSE IF out.kind = "notext" THEN [k |-> "lit", s |-> DirectNoTextText]
    ELSE [k |-> "lit", s |-> SynthFallbackText]

(* generateResponse: lines 167-193. *)
generateResponse(query, out) ==
    IF out.kind = "ok" THEN out.text
    ELSE IF out.kind = "notext" THEN [k |-> "lit", s |-> DirectNoTextText]
    ELSE [k |-> "lit", s |-> DirectErrorText]

----------------------------------------------------------------------------
(* ObservabilityAgent: state and helpers *)

InitialState ==
    [conversationHistory |-> <<>>,
     mcpConnections |-> [m \in Caps |-> FALSE],
     totalQueries |-> 0,
     cacheHits |-> 0,
     mcpCalls |-> [m \in Caps |-> 0],
     strayCalls |-> {}]

(* slice(0, 20) in place of slice(-20): the oldest messages are kept. *)
addToHistory_keepsOldest(st, role, content) ==
    LET pushed == Append(st.conversationHistory, [role |-> role, content |-> content])
    IN  [st EXCEPT !.conversationHistory =
            IF Len(pushed) > HistoryCap THEN SubSeq(pushed, 1, HistoryCap) ELSE pushed]

addToHistory(st, role, content) ==
    LET pushed == Append(st.conversationHistory, Message(role, content))
    IN  [st EXCEPT !.conversationHistory =
            IF Len(pushed) > HistoryCap THEN Last(pushed, HistoryCap) ELSE pushed]

CONTEXT_MAX_CHARS == 200

(* The contents are taken whole. *)
getConversationContext_uncut(st) ==
    LET recent == Last(st.conversationHistory, ContextWindow)
    IN  [i \in 1..Len(recent) |-> Message(recent[i].role, recent[i].content)]

(* The joined lines of getConversationContext, one per message; the empty
   sequence is the empty string. *)
getConversationContext(st) ==
    LET recent == Last(st.conversationHistory, ContextWindow)
    IN  [i \in 1..Len(recent) |->
            Message(recent[i].role, Substring(recent[i].content, CONTEXT_MAX_CHARS))]

(* Every capability counter is incremented. *)
incrementMCPCounter_all(st, source) ==
    [st EXCEPT !.mcpCalls = [m \in DOMAIN @ |-> @[m] + 1]]

(* mcpCalls[source]++ : on a key that is no counter, undefined++ stores NaN
   under that key. *)
incrementMCPCounter(st, source) ==
    IF source \in Caps THEN [st EXCEPT !.mcpCalls[source] = @ + 1]
    ELSE [st EXCEPT !.strayCalls = @ \cup {source}]

createErrorResponse(error) == [k |-> "errorResponse", message |-> error]

(* (score * 100).toFixed(1), in tenths of a percent. *)
toFixed1(score) == (score + 5) \div 10

(* The annotation carries the stored question in place of the answer. *)
cachedAnswer_question(cachedResult) ==
    [k |-> "cached", source |-> cachedResult.mcpSource,
     answer |-> cachedResult.question, pct |-> toFixed1(cachedResult.score)]

cachedAnswer(cachedResult) ==
    [k |-> "cached", source |-> cachedResult.mcpSource,
     answer |-> cachedResult.answer, pct |-> toFixed1(cachedResult.score)]

(* The catch lets the exception through. *)
queryCatch_rethrows(error) == Throw(error)

(* The top-level catch of query(): lines 160-163. *)
queryCatch(error) == Return(createErrorResponse(error))

(* The whole state is reset to the defaults. *)
clearHistory_resetsState(st) == InitialState

(* clearHistory, line 206, and connectMCPs, lines 180-184: the assignment
   each makes before it saves the state. *)
clearHistory(st) == [st EXCEPT !.conversationHistory = <<>>]

connectMCPs(st) == [st EXCEPT !.mcpConnections = [m \in Caps |-> TRUE]]

(* this.state.metadata *)
Metadata(st) ==
    [totalQueries |-> st.totalQueries, cacheHits |-> st.cacheHits,
     mcpCalls |-> st.mcpCalls, strayCalls |-> st.strayCalls]

(* The returned messages are taken out of the history: splice(-10). *)
getHistory_splice(st) ==
    [state |-> [st EXCEPT !.conversationHistory =
                    SubSeq(@, 1, Len(@) - Min(Len(@), HistoryWindow))],
     puts |-> <<>>,
     value |-> Last(st.conversationHistory, HistoryWindow)]

(* getHistory, lines 197-200, and getStats, lines 214-216: the state they
   leave, the states they hand to storage.put, and the value they return. *)
getHistory(st) ==
    [state |-> st, puts |-> <<>>, value |-> Last(st.conversationHistory, HistoryWindow)]

getStats(st) == [state |-> st, puts |-> <<>>, value |-> Metadata(st)]

----------------------------------------------------------------------------
(* ObservabilityAgent.query: one invocation *)

NoText == [k |-> "none"]

IdleCall ==
    [pc |-> "idle", sid |-> "none", q |-> NoText,
     pre |-> None,          \* this.state when the invocation began
     emb |-> None,          \* the embedding in hand
     cached |-> None,       \* cachedResult
     cls |-> None,          \* what the classification oracle resolved to
     intent |-> None,
     srch |-> "none",       \* how search() ended: embedFailed, queryFailed, miss, hit
     prov |-> "none",       \* what the provider call resolved to, if made
     sto |-> "none",        \* how store() ended: embedFailed, insertFailed, stored
     mcpData |-> NullData, mcpSource |-> "none", context |-> <<>>,
     response |-> None,
     putArg |-> None,       \* the state handed to storage.put
     putOut |-> "none",     \* what that put resolved to
     result |-> None,       \* how the invocation completed
     faults |-> 0,          \* how many of its external calls failed
     log |-> <<>>]          \* the external calls it issued, in order

InFlight(c) == calls[c].pc \notin {"idle", "done"}

RECURSIVE SumFaults(_)
SumFaults(n) == IF n = 0 THEN 0 ELSE calls[n].faults + SumFaults(n - 1)

(* The environment fails at most MaxFaults external calls in one behaviour. *)
MayResolve(ok) == ok \/ SumFaults(MaxCalls) < MaxFaults

Issue(call, pc, what) == [call EXCEPT !.pc = pc, !.log = Append(@, what)]

Finish(call, result) == [call EXCEPT !.pc = "done", !.result = Some(result)]

(* The user message is appended as soon as the query arrives. *)
Start_recordsQuestion(c, s, q) ==
    /\ calls[c].pc = "idle"
    /\ \A d \in CallIds : d < c => calls[d].pc # "idle"
    /\ \A d \in CallIds : ~InFlight(d)
    /\ state' = [state EXCEPT ![s] =
                    addToHistory([@ EXCEPT !.totalQueries = @ + 1], "user", q)]
    /\ calls' = [calls EXCEPT ![c] =
                    Issue([IdleCall EXCEPT !.sid = s, !.q = q, !.pre = Some(state[s])],
                          "embedSearch", "embed")]
    /\ UNCHANGED <<stored, index, fin, fout>>

(* Lines 112-117: mark the query, then search() up to its embedding call.
   The host serializes the invocations: one is in flight at a time. *)
Start(c, s, q) ==
    /\ calls[c].pc = "idle"
    /\ \A d \in CallIds : d < c => calls[d].pc # "idle"
    /\ \A d \in CallIds : ~InFlight(d)
    /\ state' = [state EXCEPT ![s].totalQueries = @ + 1]
    /\ calls' = [calls EXCEPT ![c] =
                    Issue([IdleCall EXCEPT !.sid = s, !.q = q, !.pre = Some(state[s])],
                          "embedSearch", "embed")]
    /\ UNCHANGED <<stored, index, fin, fout>>

(* A failed embedding call of search() is made again. *)
ToClassify_retriesEmbedding(call) ==
    IF call.srch = "embedFailed" /\ Len(call.log) < 2
    THEN Issue(call, "embedSearch", "embed")
    ELSE Issue(call, "classify", "classify")

(* The call of classifyIntent, reached when search returns null. *)
ToClassify(call) == Issue(call, "classify", "classify")

(* search: the embedding call resolves (lines 47-58). *)
EmbedSearchDone(c, out) ==
    /\ calls[c].pc = "embedSearch"
    /\ MayResolve(out = "ok")
    /\ LET call == [calls[c] EXCEPT !.faults = IF out = "ok" THEN @ ELSE @ + 1,
                                    !.srch = IF out = "ok" THEN @ ELSE "embedFailed"]
           embedding == generateEmbedding(call.q, out)
       IN  calls' = [calls EXCEPT ![c] =
                IF embedding.some
                THEN Issue([call EXCEPT !.emb = embedding], "vectorQuery", "vectorQuery")
                ELSE ToClassify(call)]
    /\ UNCHANGED <<state, stored, index, fin, fout>>

VectorQueryOutcomes(c) ==
    IF calls[c].pc # "vectorQuery" THEN {}
    ELSE {[kind |-> "throw"]} \cup
         {[kind |-> "ok", matches |-> m] : m \in QueryIndex(index, calls[c].emb.v, TopK)}

(* The hit is also recorded as a turn of the conversation. *)
cacheHit_recordsTurn(st) ==
    [st EXCEPT !.cacheHits = @ + 1,
               !.conversationHistory = Append(@, [role |-> "assistant", content |-> NoText])]

(* Lines 119-122 of query(): the cache hit. *)
cacheHit(st) == [st EXCEPT !.cacheHits = @ + 1]

(* search: the index query resolves (lines 60-81); then lines 119-128. *)
VectorQueryDone(c, out) ==
    /\ calls[c].pc = "vectorQuery"
    /\ MayResolve(out.kind = "ok")
    /\ LET cachedResult == search(calls[c].q, SIMILARITY_THRESHOLD, "ok", out)
           call == [calls[c] EXCEPT !.faults = IF out.kind = "ok" THEN @ ELSE @ + 1,
                                    !.srch = IF out.kind # "ok" THEN "queryFailed"
                                             ELSE IF cachedResult.some THEN "hit"
                                             ELSE "miss"]
           s == call.sid
       IN  IF cachedResult.some
           THEN /\ state' = [state EXCEPT ![s] = cacheHit(@)]
                /\ calls' = [calls EXCEPT ![c] =
                        Issue([call EXCEPT !.cached = cachedResult,
                                           !.putArg = Some(cacheHit(state[s]))],
                              "saveHit", "put")]
           ELSE /\ calls' = [calls EXCEPT ![c] = ToClassify(call)]
                /\ UNCHANGED state
    /\ UNCHANGED <<stored, index, fin, fout>>

PutOutcomes == {"ok", "throw"}

(* The put writes one record for all sessions. *)
saveState_sharedKey(sto, s, arg, out) ==
    IF out = "ok" THEN [t \in DOMAIN sto |-> arg] ELSE sto

(* saveState: the put resolves; a failure is logged and swallowed. *)
saveState(sto, s, arg, out) == IF out = "ok" THEN [sto EXCEPT ![s] = arg] ELSE sto

(* The rejection of the put reaches the caller of saveState. *)
afterSaveState_propagates(out, value) ==
    IF out = "ok" THEN Return(value) ELSE Throw("put failed")

(* How the caller of saveState goes on (lines 88-93): saveState resolves
   whatever the put did, and the caller completes with its own value. *)
afterSaveState(out, value) == Return(value)

(* Lines 122-124: the state is saved, the annotated cached answer returned. *)
SaveHitDone(c, out) ==
    /\ calls[c].pc = "saveHit"
    /\ MayResolve(out = "ok")
    /\ stored' = saveState(stored, calls[c].sid, calls[c].putArg, out)
    /\ calls' = [calls EXCEPT ![c] =
                    Finish([@ EXCEPT !.faults = IF out = "ok" THEN @ ELSE @ + 1,
                                     !.putOut = out],
                           afterSaveState(out, cachedAnswer(calls[c].cached.v)))]
    /\ UNCHANGED <<state, index, fin, fout>>

ToolNames ==
    {"query_observability", "search_docs", "query_bindings", "unknown_tool", "constructor"}

ClsThrow == [kind |-> "throw"]
ClsNull == [kind |-> "null"]
ClsOk(toolCalls) == [kind |-> "ok", tool_calls |-> toolCalls]

(* What the classification oracle resolves to in the pipeline. *)
ClsOutcomes ==
    {ClsThrow, ClsOk(<<>>)} \cup {ClsOk(<<ToolCall(n, None)>>) : n \in ToolNames}

(* Lines 128-149: the intent is in; route, or generate directly. *)
ClassifyDone(c, resp) ==
    /\ calls[c].pc = "classify"
    /\ MayResolve(resp.kind = "ok")
    /\ LET intent == classifyIntent(resp)
           call == [calls[c] EXCEPT !.cls = Some(resp), !.intent = Some(intent),
                                    !.faults = IF resp.kind = "ok" THEN @ ELSE @ + 1]
       IN  calls' = [calls EXCEPT ![c] =
                IF Truthy(intent.targetMCP)
                THEN IF routeCallsProvider(intent)
                     THEN Issue(call, "route", "provider")
                     ELSE [call EXCEPT !.pc = "route"]
                ELSE Issue(call, "generate", "generate")]
    /\ UNCHANGED <<state, stored, index, fin, fout>>

(* store() is not awaited: the state is saved at once. *)
ToStore_notAwaited(call, response) ==
    Issue([call EXCEPT !.response = Some(response)], "saveMiss", "put")

(* store() up to its embedding call (lines 97-100). *)
ToStore(call, response) ==
    Issue([call EXCEPT !.response = Some(response)], "embedStore", "embed")

(* A completion of synthesize: its answer goes on to store(), its exception to
   the catch of query(). *)
AfterSynthesize(call, r) ==
    IF r.tag = "throw" THEN Finish(call, queryCatch(r.error))
    ELSE ToStore(call, r.value)

(* Lines 136-145: route resolves; the counter, the source tag, the context;
   synthesize up to its oracle call. *)
RouteDone(c, out) ==
    /\ calls[c].pc = "route"
    /\ MayResolve(out = "ok")
    /\ out \in (IF routeCallsProvider(calls[c].intent.v) THEN ProviderOutcomes ELSE {"ok"})
    /\ LET s == calls[c].sid
           mcpResult == route(calls[c].intent.v, calls[c].q, out)
           st == incrementMCPCounter(state[s], mcpResult.source)
           context == getConversationContext(st)
           call == [calls[c] EXCEPT !.prov = IF routeCallsProvider(calls[c].intent.v)
                                                      THEN out ELSE "none",
                                    !.mcpData = mcpResult.data,
                                    !.mcpSource = mcpResult.source,
                                    !.context = context,
                                    !.faults = IF out = "ok" THEN @ ELSE @ + 1]
       IN  /\ state' = [state EXCEPT ![s] = st]
           /\ calls' = [calls EXCEPT ![c] =
                IF synthesizeCallsOracle(call.q, call.mcpData, context)
                THEN Issue(call, "synthesize", "generate")
                ELSE AfterSynthesize(call,
                        synthesize(call.q, call.mcpData, context, [kind |-> "throw"]))]
    /\ UNCHANGED <<stored, index, fin, fout>>

(* synthesize: the generation oracle resolves (lines 146-157 of the
   orchestrator). *)
SynthesizeDone(c, out) ==
    /\ calls[c].pc = "synthesize"
    /\ MayResolve(out.kind = "ok")
    /\ LET call == [calls[c] EXCEPT !.faults = IF out.kind = "ok" THEN @ ELSE @ + 1]
       IN  calls' = [calls EXCEPT ![c] =
                AfterSynthesize(call,
                    synthesize(call.q, call.mcpData, call.context, out))]
    /\ UNCHANGED <<state, stored, index, fin, fout>>

(* generateResponse: the generation oracle resolves. *)
GenerateDone(c, out) ==
    /\ calls[c].pc = "generate"
    /\ MayResolve(out.kind = "ok")
    /\ LET call == [calls[c] EXCEPT !.faults = IF out.kind = "ok" THEN @ ELSE @ + 1]
       IN  calls' = [calls EXCEPT ![c] = ToStore(call, generateResponse(call.q, out))]
    /\ UNCHANGED <<state, stored, index, fin, fout>>

(* The answer is appended before the question. *)
recordTurn_assistantFirst(st, userMessage, response) ==
    addToHistory(addToHistory(st, "assistant", response), "user", userMessage)

(* Lines 155-157 of query(): both turns appended, then saveState up to its put. *)
recordTurn(st, userMessage, response) ==
    addToHistory(addToHistory(st, "user", userMessage), "assistant", response)

(* store() hands back a promise that nothing settles. *)
AfterStore_neverSettles(call, st) == [call EXCEPT !.pc = "awaitStore"]

AfterStore(call, st) == Issue([call EXCEPT !.putArg = Some(st)], "saveMiss", "put")

(* store: the embedding call resolves (lines 100-108). *)
EmbedStoreDone(c, out) ==
    /\ calls[c].pc = "embedStore"
    /\ MayResolve(out = "ok")
    /\ LET s == calls[c].sid
           call == [calls[c] EXCEPT !.faults = IF out = "ok" THEN @ ELSE @ + 1,
                                    !.sto = IF out = "ok" THEN @ ELSE "embedFailed"]
           embedding == generateEmbedding(call.q, out)
           st == recordTurn(state[s], call.q, call.response.v)
       IN  IF embedding.some
           THEN /\ calls' = [calls EXCEPT ![c] =
                        Issue([call EXCEPT !.emb = embedding], "insert", "insert")]
                /\ UNCHANGED state
           ELSE /\ state' = [state EXCEPT ![s] = st]
                /\ calls' = [calls EXCEPT ![c] = AfterStore(call, st)]
    /\ UNCHANGED <<stored, index, fin, fout>>

InsertOutcomes == {"ok", "throw"}

(* The failed insert leaves the entry behind without its answer. *)
vectorizeInsert_partial(idx, entry, out) ==
    IF out = "ok" THEN Append(idx, entry)
    ELSE Append(idx, [entry EXCEPT !.metadata.answer = NoText])

(* The insert replaces the entry stored for the same question. *)
vectorizeInsert_upsert(idx, entry, out) ==
    IF out # "ok" THEN idx
    ELSE IF \E i \in 1..Len(idx) : idx[i].metadata.question = entry.metadata.question
    THEN [i \in 1..Len(idx) |->
            IF idx[i].metadata.question = entry.metadata.question THEN entry ELSE idx[i]]
    ELSE Append(idx, entry)

(* vectorize.insert([entry]) and the catch of store (lines 108-125): a failed
   insert adds nothing and its error is swallowed. *)
vectorizeInsert(idx, entry, out) == IF out = "ok" THEN Append(idx, entry) ELSE idx

(* store: the insert resolves (lines 108-125); then lines 155-157. *)
InsertDone(c, out) ==
    /\ calls[c].pc = "insert"
    /\ MayResolve(out = "ok")
    /\ LET s == calls[c].sid
           call == [calls[c] EXCEPT !.faults = IF out = "ok" THEN @ ELSE @ + 1,
                                    !.sto = IF out = "ok" THEN "stored" ELSE "insertFailed"]
           st == recordTurn(state[s], call.q, call.response.v)
       IN  /\ index' = vectorizeInsert(index, storeEntry(call.q, call.response.v,
                                                         call.mcpSource, call.emb.v), out)
           /\ state' = [state EXCEPT ![s] = st]
           /\ calls' = [calls EXCEPT ![c] = AfterStore(call, st)]
    /\ UNCHANGED <<stored, fin, fout>>

(* Lines 157-159: the state is saved, the answer returned. *)
SaveMissDone(c, out) ==
    /\ calls[c].pc = "saveMiss"
    /\ MayResolve(out = "ok")
    /\ stored' = saveState(stored, calls[c].sid, calls[c].putArg, out)
    /\ calls' = [calls EXCEPT ![c] =
                    Finish([@ EXCEPT !.faults = IF out = "ok" THEN @ ELSE @ + 1,
                                     !.putOut = out],
                           afterSaveState(out, calls[c].response.v))]
    /\ UNCHANGED <<state, index, fin, fout>>

----------------------------------------------------------------------------
(* The pipeline: one session instance, fresh, with an empty cache. *)

NoInput == [k |-> "none"]

Init ==
    /\ state = [s \in Sessions |-> InitialState]
    /\ stored = [s \in Sessions |-> None]
    /\ index = <<>>
    /\ calls = [c \in CallIds |-> IdleCall]
    /\ fin = NoInput
    /\ fout = NoInput

PipelineSessions == {"A"}
PipelineQueries == {QA, QC}
GenOutcomes == GenOutcomesOf({T2})

Next ==
    \E c \in CallIds :
        \/ \E s \in PipelineSessions, q \in PipelineQueries : Start(c, s, q)
        \/ \E out \in EmbedOutcomes : EmbedSearchDone(c, out)
        \/ \E out \in VectorQueryOutcomes(c) : VectorQueryDone(c, out)
        \/ \E out \in PutOutcomes : SaveHitDone(c, out)
        \/ \E resp \in ClsOutcomes : ClassifyDone(c, resp)
        \/ \E out \in ProviderOutcomes : RouteDone(c, out)
        \/ \E out \in GenOutcomes : SynthesizeDone(c, out)
        \/ \E out \in GenOutcomes : GenerateDone(c, out)
        \/ \E out \in EmbedOutcomes : EmbedStoreDone(c, out)
        \/ \E out \in InsertOutcomes : InsertDone(c, out)
        \/ \E out \in PutOutcomes : SaveMissDone(c, out)

Spec == Init /\ [][Next]_vars

----------------------------------------------------------------------------
(* The pipeline under the assumption that every external call eventually
   resolves or fails: the resolution of the call an invocation awaits is
   weakly fair.  Nothing obliges a client to send a query. *)

Resolve(c) ==
    \/ \E out \in EmbedOutcomes : EmbedSearchDone(c, out)
    \/ \E out \in VectorQueryOutcomes(c) : VectorQueryDone(c, out)
    \/ \E out \in PutOutcomes : SaveHitDone(c, out)
    \/ \E resp \in ClsOutcomes : ClassifyDone(c, resp)
    \/ \E out \in ProviderOutcomes : RouteDone(c, out)
    \/ \E out \in GenOutcomes : SynthesizeDone(c, out)
    \/ \E out \in GenOutcomes : GenerateDone(c, out)
    \/ \E out \in EmbedOutcomes : EmbedStoreDone(c, out)
    \/ \E out \in InsertOutcomes : InsertDone(c, out)
    \/ \E out \in PutOutcomes : SaveMissDone(c, out)

SpecLive == Init /\ [][Next]_vars /\ \A c \in CallIds : WF_vars(Resolve(c))

----------------------------------------------------------------------------
(* The session with clearHistory: the pipeline's invocations and
   clearHistory() requests, one operation at a time. *)

Void == [k |-> "void"]

(* clearHistory (lines 205-209) up to the put of saveState. *)
ClearStart(c, s) ==
    /\ calls[c].pc = "idle"
    /\ \A d \in CallIds : d < c => calls[d].pc # "idle"
    /\ \A d \in CallIds : ~InFlight(d)
    /\ LET st == [state[s] EXCEPT !.conversationHistory = <<>>]
       IN  /\ state' = [state EXCEPT ![s] = st]
           /\ calls' = [calls EXCEPT ![c] =
                    Issue([IdleCall EXCEPT !.sid = s, !.pre = Some(state[s]),
                                           !.putArg = Some(st)],
                          "saveClear", "put")]
    /\ UNCHANGED <<stored, index, fin, fout>>

(* clearHistory: the put resolves, clearHistory returns. *)
ClearPutDone(c, out) ==
    /\ calls[c].pc = "saveClear"
    /\ MayResolve(out = "ok")
    /\ stored' = saveState(stored, calls[c].sid, calls[c].putArg, out)
    /\ calls' = [calls EXCEPT ![c] =
                    Finish([@ EXCEPT !.faults = IF out = "ok" THEN @ ELSE @ + 1,
                                     !.putOut = out],
                           afterSaveState(out, Void))]
    /\ UNCHANGED <<state, index, fin, fout>>

NextSession ==
    \/ Next
    \/ \E c \in CallIds :
          \/ \E s \in PipelineSessions : ClearStart(c, s)
          \/ \E out \in PutOutcomes : ClearPutDone(c, out)

SpecSession == Init /\ [][NextSession]_vars

----------------------------------------------------------------------------
(* The instance constructed over a durable store that already holds a state.
   The constructor (lines 33-67) sets the default state and calls
   initializeState() without awaiting it: the storage read resolves at some
   later point, before, between or after the steps of the first query.  In
   this specification fin is the position of initializeState. *)

(* A state an earlier instance persisted: one query, routed to the
   documentation provider, whose cache store failed. *)
LoadedState ==
    [InitialState EXCEPT
        !.conversationHistory = <<Message("user", QC), Message("assistant", T1)>>,
        !.totalQueries = 1,
        !.mcpCalls = [@ EXCEPT !["documentation"] = 1]]

GetOutcomes == {"ok", "throw"}

(* ctx.storage.get('state'): the value the store held when the read was
   issued, or a rejection. *)
storageGet(held, out) == IF out = "ok" THEN Return(held) ELSE Throw("get failed")

(* initializeState, lines 72-82: a stored state replaces this.state; an absent
   one, or a failed read, leaves this.state as it is. *)
initializeState(st, got) ==
    IF got.tag = "return" /\ got.value.some THEN got.value.v ELSE st

LoadSession == "A"

InitLoad ==
    /\ state = [s \in Sessions |-> InitialState]
    /\ stored = [s \in Sessions |-> IF s = LoadSession THEN Some(LoadedState) ELSE None]
    /\ index = <<>>
    /\ calls = [c \in CallIds |-> IdleCall]
    /\ fin = [k |-> "initializeState", pc |-> "get", held |-> Some(LoadedState)]
    /\ fout = NoInput

(* The read of initializeState resolves. *)
LoadDone(out) ==
    /\ fin.k = "initializeState"
    /\ fin.pc = "get"
    /\ state' = [state EXCEPT ![LoadSession] = initializeState(@, storageGet(fin.held, out))]
    /\ fin' = [fin EXCEPT !.pc = IF out = "ok" THEN "loaded" ELSE "failed"]
    /\ UNCHANGED <<stored, index, calls, fout>>

NextLoad ==
    \/ Next
    \/ \E out \in GetOutcomes : LoadDone(out)

SpecLoad == InitLoad /\ [][NextLoad]_vars

----------------------------------------------------------------------------
(* Two session instances.  Each has its own this.state and its own storage,
   and each constructs its SemanticMemory over the same env.VECTORIZE
   binding (line 40): the vector index is one for all sessions. *)

OtherSession == "B"

NextShared ==
    \/ Next
    \/ \E c \in CallIds, q \in PipelineQueries : Start(c, OtherSession, q)

SpecShared == Init /\ [][NextShared]_vars

----------------------------------------------------------------------------
(* getConversationContext as a function of the history, and what synthesize
   makes of its result.  The history is built by addToHistory from short and
   long contents; fin is the sequence of messages appended so far. *)

QLong == UserText(<<Run("a", 150), Run("b", 100)>>)
ContextQueries == {QA, QLong}
ContextAnswers == {T1, T2}
ContextSession == "A"

InitContext ==
    /\ state = [s \in Sessions |-> InitialState]
    /\ stored = [s \in Sessions |-> None]
    /\ index = <<>>
    /\ calls = [c \in CallIds |-> IdleCall]
    /\ fin = <<>>
    /\ fout = NoInput

(* Lines 155-156 of query(), one addToHistory call at a time. *)
ContextAppend(content) ==
    /\ Len(fin) < MaxTurns
    /\ LET role == IF Len(fin) % 2 = 0 THEN "user" ELSE "assistant"
       IN  /\ content \in (IF role = "user" THEN ContextQueries ELSE ContextAnswers)
           /\ state' = [state EXCEPT ![ContextSession] = addToHistory(@, role, content)]
           /\ fin' = Append(fin, Message(role, content))
    /\ UNCHANGED <<stored, index, calls, fout>>

(* Lines 141-145 of query(): the context is read and handed to synthesize,
   which builds its message list from it. *)
ContextRead(q) ==
    /\ Len(fin) % 2 = 0
    /\ LET context == getConversationContext(state[ContextSession])
       IN  fout' = [k |-> "context",
                    history |-> state[ContextSession].conversationHistory,
                    context |-> context,
                    messages |-> synthesizeMessages(q, NullData, context).value]
    /\ UNCHANGED <<state, stored, index, calls, fin>>

NextContext ==
    \/ \E content \in ContextQueries \cup ContextAnswers : ContextAppend(content)
    \/ \E q \in ContextQueries : ContextRead(q)

SpecContext == InitContext /\ [][NextContext]_vars

----------------------------------------------------------------------------
(* The session with its two read requests.  The instance has answered five
   queries before, all directly and with the vector index failing its
   inserts, and has loaded that state; getHistory and getStats requests come
   between the query() invocations.  fout is the last read's result. *)

RECURSIVE Turns(_, _, _)
Turns(n, q, a) ==
    IF n = 0 THEN <<>> ELSE <<Message("user", q), Message("assistant", a)>> \o Turns(n - 1, q, a)

PriorTurns == 5         \* turns of the conversation before the instance was loaded

PriorState ==
    [InitialState EXCEPT !.conversationHistory = Turns(PriorTurns, QC, T2),
                         !.totalQueries = PriorTurns]

ReadSession == "A"

InitReads ==
    /\ state = [s \in Sessions |-> IF s = ReadSession THEN PriorState ELSE InitialState]
    /\ stored = [s \in Sessions |-> IF s = ReadSession THEN Some(PriorState) ELSE None]
    /\ index = <<>>
    /\ calls = [c \in CallIds |-> IdleCall]
    /\ fin = NoInput
    /\ fout = NoInput

(* What the puts of a request leave in the store. *)
afterPuts(sto, s, puts) ==
    IF puts = <<>> THEN sto ELSE [sto EXCEPT ![s] = Some(puts[Len(puts)])]

(* A getHistory request: an async method without an await. *)
GetHistory ==
    /\ \A d \in CallIds : ~InFlight(d)
    /\ LET r == getHistory(state[ReadSession])
       IN  /\ state' = [state EXCEPT ![ReadSession] = r.state]
           /\ stored' = afterPuts(stored, ReadSession, r.puts)
           /\ fout' = [k |-> "getHistory", value |-> r.value]
    /\ UNCHANGED <<index, calls, fin>>

(* A getStats request. *)
GetStats ==
    /\ \A d \in CallIds : ~InFlight(d)
    /\ LET r == getStats(state[ReadSession])
       IN  /\ state' = [state EXCEPT ![ReadSession] = r.state]
           /\ stored' = afterPuts(stored, ReadSession, r.puts)
           /\ fout' = [k |-> "getStats", value |-> r.value]
    /\ UNCHANGED <<index, calls, fin>>

NextReads ==
    \/ Next
    \/ GetHistory
    \/ GetStats

SpecReads == InitReads /\ [][NextReads]_vars

----------------------------------------------------------------------------
(* The session with its clearHistory and connectMCPs requests between the
   query() invocations.  fin is the position of the request in progress, if
   any, with the state and the index it found. *)

RequestSession == "A"

NoRequest == IF fin.k = "none" THEN TRUE ELSE fin.pc = "done"

Quiescent == NoRequest /\ \A d \in CallIds : ~InFlight(d)

Request(k, st) ==
    [k |-> k, pc |-> "put", pre |-> state[RequestSession], putArg |-> Some(st),
     putOut |-> "none"]

(* clearHistory (lines 205-209) up to the put of saveState. *)
ClearHistoryBegin ==
    /\ Quiescent
    /\ LET st == clearHistory(state[RequestSession])
       IN  /\ state' = [state EXCEPT ![RequestSession] = st]
           /\ fin' = Request("clearHistory", st)
    /\ UNCHANGED <<stored, index, calls, fout>>

(* connectMCPs (lines 172-185) up to the put of saveState.  The client
   connects the capabilities once, before its first query. *)
ConnectBegin ==
    /\ Quiescent
    /\ fin.k = "none"
    /\ \A d \in CallIds : calls[d].pc = "idle"
    /\ LET st == connectMCPs(state[RequestSession])
       IN  /\ state' = [state EXCEPT ![RequestSession] = st]
           /\ fin' = Request("connectMCPs", st)
    /\ UNCHANGED <<stored, index, calls, fout>>

(* The put of the request resolves and the request returns. *)
RequestPutDone(out) ==
    /\ fin.k \in {"clearHistory", "connectMCPs"}
    /\ fin.pc = "put"
    /\ stored' = saveState(stored, RequestSession, fin.putArg, out)
    /\ fin' = [fin EXCEPT !.pc = "done", !.putOut = out]
    /\ UNCHANGED <<state, index, calls, fout>>

(* query() begins when no request is in progress. *)
StartQuery(c, s, q) == NoRequest /\ Start(c, s, q)

NextRequests ==
    \/ ClearHistoryBegin
    \/ ConnectBegin
    \/ \E out \in PutOutcomes : RequestPutDone(out)
    \/ \E c \in CallIds :
        \/ \E q \in PipelineQueries : StartQuery(c, RequestSession, q)
        \/ \E out \in EmbedOutcomes : EmbedSearchDone(c, out)
        \/ \E out \in VectorQueryOutcomes(c) : VectorQueryDone(c, out)
        \/ \E out \in PutOutcomes : SaveHitDone(c, out)
        \/ \E resp \in ClsOutcomes : ClassifyDone(c, resp)
        \/ \E out \in ProviderOutcomes : RouteDone(c, out)
        \/ \E out \in GenOutcomes : SynthesizeDone(c, out)
        \/ \E out \in GenOutcomes : GenerateDone(c, out)
        \/ \E out \in EmbedOutcomes : EmbedStoreDone(c, out)
        \/ \E out \in InsertOutcomes : InsertDone(c, out)
        \/ \E out \in PutOutcomes : SaveMissDone(c, out)

SpecRequests == Init /\ [][NextRequests]_vars

----------------------------------------------------------------------------
(* Invocations of query() that interleave on one instance: a second request
   is delivered while the first awaits an external call.  The instance has
   answered NearCapTurns queries before, so that the history reaches its cap
   while the invocations overlap. *)

ConcurrentSession == "A"

NearCapState ==
    [InitialState EXCEPT !.conversationHistory = Turns(NearCapTurns, QC, T2),
                         !.totalQueries = NearCapTurns]

InitConcurrent ==
    /\ state = [s \in Sessions |->
                    IF s = ConcurrentSession THEN NearCapState ELSE InitialState]
    /\ stored = [s \in Sessions |->
                    IF s = ConcurrentSession THEN Some(NearCapState) ELSE None]
    /\ index = <<>>
    /\ calls = [c \in CallIds |-> IdleCall]
    /\ fin = NoInput
    /\ fout = NoInput

(* Lines 112-117, begun whatever the other invocations are doing. *)
StartConcurrent(c, s, q) ==
    /\ calls[c].pc = "idle"
    /\ \A d \in CallIds : d < c => calls[d].pc # "idle"
    /\ state' = [state EXCEPT ![s].totalQueries = @ + 1]
    /\ calls' = [calls EXCEPT ![c] =
                    Issue([IdleCall EXCEPT !.sid = s, !.q = q, !.pre = Some(state[s])],
                          "embedSearch", "embed")]
    /\ UNCHANGED <<stored, index, fin, fout>>

NextConcurrent ==
    \E c \in CallIds :
        \/ \E q \in PipelineQueries : StartConcurrent(c, ConcurrentSession, q)
        \/ \E out \in EmbedOutcomes : EmbedSearchDone(c, out)
        \/ \E out \in VectorQueryOutcomes(c) : VectorQueryDone(c, out)
        \/ \E out \in PutOutcomes : SaveHitDone(c, out)
        \/ \E resp \in ClsOutcomes : ClassifyDone(c, resp)
        \/ \E out \in ProviderOutcomes : RouteDone(c, out)
        \/ \E out \in GenOutcomes : SynthesizeDone(c, out)
        \/ \E out \in GenOutcomes : GenerateDone(c, out)
        \/ \E out \in EmbedOutcomes : EmbedStoreDone(c, out)
        \/ \E out \in InsertOutcomes : InsertDone(c, out)
        \/ \E out \in PutOutcomes : SaveMissDone(c, out)

SpecConcurrent == InitConcurrent /\ [][NextConcurrent]_vars

----------------------------------------------------------------------------
(* SemanticMemory over long texts: search and store as functions of a
   question and an answer of up to 1500 characters.  The vector stands for
   the text the embedding service was sent.  fin is the last call's input,
   fout what it sent and got. *)

QLong1 == UserText(<<Run("a", 1000), Run("b", 50)>>)
QLong2 == UserText(<<Run("a", 1000), Run("c", 200)>>)
QExact == UserText(<<Run("a", 1000)>>)
TLong == OracleText(<<Run("s", 1500)>>)
LongQuestions == {QA, QExact, QLong1, QLong2}
LongAnswers == {T1, TLong}

InitEmbed ==
    /\ state = [s \in Sessions |-> InitialState]
    /\ stored = [s \in Sessions |-> None]
    /\ index = <<>>
    /\ calls = [c \in CallIds |-> IdleCall]
    /\ fin = NoInput
    /\ fout = NoInput

(* search(query), lines 39-58, up to the index query: the embedding call. *)
SearchEmbed(q, out) ==
    /\ fin' = [k |-> "search", question |-> q, answer |-> NoText, embedOut |-> out]
    /\ fout' = [k |-> "search", embedding |-> generateEmbedding(q, out)]
    /\ UNCHANGED <<state, stored, index, calls>>

(* store(question, answer, mcpSource), lines 91-126. *)
StoreLong(q, a, embedOut, insertOut) ==
    /\ Len(index) < MaxLongStores
    /\ LET embedding == generateEmbedding(q, embedOut)
       IN  /\ fin' = [k |-> "store", question |-> q, answer |-> a, embedOut |-> embedOut]
           /\ fout' = [k |-> "store", embedding |-> embedding,
                        inserted |-> embedding.some /\ insertOut = "ok"]
           /\ index' = IF embedding.some
                       THEN vectorizeInsert(index, storeEntry(q, a, "none", embedding.v),
                                            insertOut)
                       ELSE index
    /\ UNCHANGED <<state, stored, calls>>

NextEmbed ==
    \/ \E q \in LongQuestions, out \in EmbedOutcomes : SearchEmbed(q, out)
    \/ \E q \in LongQuestions, a \in LongAnswers,
          embedOut \in EmbedOutcomes, insertOut \in InsertOutcomes :
            StoreLong(q, a, embedOut, insertOut)

SpecEmbed == InitEmbed /\ [][NextEmbed]_vars

----------------------------------------------------------------------------
(* The browser client (public/chat.js) and the worker's /api/chat route
   (src/index.ts).  state maps the agent instances the worker can reach to
   their state; fin is the page's state, fout the fetches of /api/chat that
   were issued and have not settled.  The agent's query() is summarised by
   how it ended: a cache hit, a miss that was answered, or its catch. *)

MaxMessages == 3    \* fetches of /api/chat one page issues

(* "session_" + Date.now() + "_" + random: a name no instance chose. *)
generateSessionId == [k |-> "generated", n |-> 1]

(* idFromName derives the id from the name; toString is the id's own text. *)
idFromName(name) == [k |-> "id", name |-> name]
idToString(id) == [k |-> "hex", id |-> id]
newUniqueId == [k |-> "unique"]

(* A session id that is a non-empty string, as against a missing one. *)
NoSessionId == [k |-> "undefined"]
HasSessionId(v) == v.k # "undefined"

(* The session id the page holds after n answered messages, had each answer
   carried the id of the instance reached by the one before. *)
RECURSIVE NameAt(_)
NameAt(n) == IF n = 0 THEN generateSessionId ELSE idToString(idFromName(NameAt(n - 1)))

ClientInstances == {idFromName(NameAt(n)) : n \in 0..MaxMessages}

RECURSIVE trimStart(_)
trimStart(s) == IF s # <<>> /\ Head(s) = " " THEN trimStart(Tail(s)) ELSE s
RECURSIVE trimEnd(_)
trimEnd(s) == IF s # <<>> /\ s[Len(s)] = " " THEN trimEnd(SubSeq(s, 1, Len(s) - 1)) ELSE s
trim(s) == trimEnd(trimStart(s))

TypedInputs == {<<>>, <<" ", " ">>, <<" ", "h", "i", " ">>}
ExampleQueries == {<<"l", "o", "g", "s">>}

ChatOutcomes == {"hit", "miss", "error", "unreachable"}

(* query(message) on one instance, by its outcome: lines 112, 119-122,
   155-157 and 160-163. *)
querySummary(st, message, out) ==
    LET counted == [st EXCEPT !.totalQueries = @ + 1]
    IN  CASE out = "hit" ->
                [state |-> cacheHit(counted),
                 response |-> cachedAnswer([mcpSource |-> "none", question |-> message,
                                            answer |-> T1, score |-> 9000])]
          [] out = "miss" ->
                [state |-> recordTurn(counted, message, T1), response |-> T1]
          [] OTHER ->
                [state |-> counted, response |-> createErrorResponse("failed")]

(* The agent's fetch on /query: the answer, the instance's own id as text
   and two counters. *)
agentQuery(st, id, message, out) ==
    LET r == querySummary(st, message, out)
    IN  [state |-> r.state,
         data |-> [response |-> r.response, sessionId |-> idToString(id),
                   stats |-> [cacheHits |-> r.state.cacheHits,
                              totalQueries |-> r.state.totalQueries]]]

(* The worker's POST /api/chat: the instance is looked up by the name the
   request carries; the agent's body is passed on. *)
apiChat(instances, req, out) ==
    IF req.message = <<>>
    THEN [instances |-> instances, status |-> 400, data |-> NULL]
    ELSE LET id == IF HasSessionId(req.sessionId) THEN idFromName(req.sessionId)
                   ELSE newUniqueId
         IN  IF out = "unreachable"
             THEN [instances |-> instances, status |-> 500, data |-> NULL]
             ELSE LET r == agentQuery(instances[id], id, req.message, out)
                  IN  [instances |-> [instances EXCEPT ![id] = r.state],
                       status |-> 200, data |-> r.data]

(* sendMessage issues the request whatever isProcessing says. *)
sendMessage_noGuard(client, net) ==
    LET message == trim(client.value)
    IN  IF message = <<>>
        THEN [client |-> client, net |-> net]
        ELSE [client |-> [client EXCEPT !.isProcessing = TRUE, !.disabled = TRUE,
                                        !.value = <<>>],
              net |-> [net EXCEPT
                         !.inflight = Append(@, [message |-> message,
                                                 sessionId |-> client.sessionId,
                                                 stage |-> "request",
                                                 status |-> 0, data |-> NULL]),
                         !.sent = @ + 1]]

(* sendMessage up to its await: lines 78-110. *)
sendMessage(client, net) ==
    LET message == trim(client.value)
    IN  IF message = <<>> \/ client.isProcessing
        THEN [client |-> client, net |-> net]
        ELSE [client |-> [client EXCEPT !.isProcessing = TRUE, !.disabled = TRUE,
                                        !.value = <<>>],
              net |-> [net EXCEPT
                         !.inflight = Append(@, [message |-> message,
                                                 sessionId |-> client.sessionId,
                                                 stage |-> "request",
                                                 status |-> 0, data |-> NULL]),
                         !.sent = @ + 1]]

(* sendMessage after its await: lines 112-154.  A response that is not OK
   and a rejected fetch end in the catch; the finally runs on every path. *)
afterFetch(client, settled) ==
    LET done == [client EXCEPT !.isProcessing = FALSE, !.disabled = FALSE]
    IN  IF settled.tag = "return" /\ settled.value.status = 200
        THEN [done EXCEPT !.sessionId = IF HasSessionId(settled.value.data.sessionId)
                                        THEN settled.value.data.sessionId ELSE @,
                          !.stats = settled.value.data.stats,
                          !.replies = Append(@, settled.value.data)]
        ELSE [done EXCEPT !.failures = @ + 1]

Without(seq, i) == SubSeq(seq, 1, i - 1) \o SubSeq(seq, i + 1, Len(seq))

InitClient ==
    /\ state = [id \in ClientInstances |-> InitialState]
    /\ stored = [s \in Sessions |-> None]
    /\ index = <<>>
    /\ calls = [c \in CallIds |-> IdleCall]
    /\ fin = [k |-> "client", sessionId |-> generateSessionId, isProcessing |-> FALSE,
              disabled |-> FALSE, value |-> <<>>,
              stats |-> [cacheHits |-> 0, totalQueries |-> 0],
              replies |-> <<>>,     \* the bodies of the answers shown
              failures |-> 0]       \* the error messages shown
    /\ fout = [k |-> "net", inflight |-> <<>>, sent |-> 0]

(* The user edits the input, which a disabled input does not allow. *)
TypeInput(v) ==
    /\ ~fin.disabled
    /\ fin' = [fin EXCEPT !.value = v]
    /\ UNCHANGED <<state, stored, index, calls, fout>>

(* Enter in the input or a click on the send button: lines 40-48. *)
PressSend ==
    /\ ~fin.disabled
    /\ fout.sent < MaxMessages
    /\ LET r == sendMessage(fin, fout)
       IN  fin' = r.client /\ fout' = r.net
    /\ UNCHANGED <<state, stored, index, calls>>

(* A click on an example query, which nothing disables: lines 52-59. *)
ExampleClick(q) ==
    /\ fout.sent < MaxMessages
    /\ LET r == sendMessage([fin EXCEPT !.value = q], fout)
       IN  fin' = r.client /\ fout' = r.net
    /\ UNCHANGED <<state, stored, index, calls>>

(* The worker receives a request and answers it. *)
HandleChat(i, out) ==
    /\ i \in 1..Len(fout.inflight)
    /\ fout.inflight[i].stage = "request"
    /\ LET r == apiChat(state, fout.inflight[i], out)
       IN  /\ state' = r.instances
           /\ fout' = [fout EXCEPT !.inflight[i].stage = "response",
                                   !.inflight[i].status = r.status,
                                   !.inflight[i].data = r.data]
    /\ UNCHANGED <<stored, index, calls, fin>>

(* The page receives the response. *)
ReceiveChat(i) ==
    /\ i \in 1..Len(fout.inflight)
    /\ fout.inflight[i].stage = "response"
    /\ fin' = afterFetch(fin, Return(fout.inflight[i]))
    /\ fout' = [fout EXCEPT !.inflight = Without(@, i)]
    /\ UNCHANGED <<state, stored, index, calls>>

(* The fetch rejects: the request or its response was lost. *)
FetchFails(i) ==
    /\ i \in 1..Len(fout.inflight)
    /\ fin' = afterFetch(fin, Throw("network"))
    /\ fout' = [fout EXCEPT !.inflight = Without(@, i)]
    /\ UNCHANGED <<state, stored, index, calls>>

NextClient ==
    \/ \E v \in TypedInputs : TypeInput(v)
    \/ PressSend
    \/ \E q \in ExampleQueries : ExampleClick(q)
    \/ \E i \in 1..MaxMessages, out \in ChatOutcomes : HandleChat(i, out)
    \/ \E i \in 1..MaxMessages : ReceiveChat(i)
    \/ \E i \in 1..MaxMessages : FetchFails(i)

SpecClient == InitClient /\ [][NextClient]_vars

----------------------------------------------------------------------------
(* SemanticMemory.search as a function: a drawn index, query and threshold. *)

SeqsUpTo(S, n) == UNION {[1..m -> S] : m \in 0..n}

DrawnEntries ==
    {storeEntry(q, a, "observability", generateEmbedding(q, "ok").v) :
        q \in Queries, a \in LLMTexts}

Thresholds == {SIMILARITY_THRESHOLD, SIMILARITY_THRESHOLD - 1}

InitSearch ==
    /\ state = [s \in Sessions |-> InitialState]
    /\ stored = [s \in Sessions |-> None]
    /\ index \in SeqsUpTo(DrawnEntries, MaxEntries)
    /\ calls = [c \in CallIds |-> IdleCall]
    /\ fin \in [query : Queries, threshold : Thresholds, embedOut : EmbedOutcomes]
    /\ fout = NoInput

SearchQueryOutcomes ==
    IF fin.embedOut # "ok" THEN {[kind |-> "notCalled"]}
    ELSE {[kind |-> "throw"]} \cup
         {[kind |-> "ok", matches |-> m] :
            m \in QueryIndex(index, generateEmbedding(fin.query, "ok").v, TopK)}

SearchApply(out) ==
    /\ fout = NoInput
    /\ fout' = [k |-> "search", queryOut |-> out,
                result |-> search(fin.query, fin.threshold, fin.embedOut, out)]
    /\ UNCHANGED <<state, stored, index, calls, fin>>

NextSearch == \E out \in SearchQueryOutcomes : SearchApply(out)

SpecSearch == InitSearch /\ [][NextSearch]_vars

----------------------------------------------------------------------------
(* LLMOrchestrator.classifyIntent as a function of the oracle's response. *)

ArgChoices == {None, Some(NoParams), Some({<<"timeRange", "24h">>})}

ToolCalls == {ToolCall(n, a) : n \in ToolNames \cup {NULL}, a \in ArgChoices}

ClsResponses == {ClsThrow, ClsNull} \cup {ClsOk(t) : t \in SeqsUpTo(ToolCalls, MaxToolCalls)}

InitClassify ==
    /\ state = [s \in Sessions |-> InitialState]
    /\ stored = [s \in Sessions |-> None]
    /\ index = <<>>
    /\ calls = [c \in CallIds |-> IdleCall]
    /\ fin \in ClsResponses
    /\ fout = NoInput

ClassifyApply ==
    /\ fout = NoInput
    /\ fout' = [k |-> "classify", intent |-> classifyIntent(fin)]
    /\ UNCHANGED <<state, stored, index, calls, fin>>

NextClassify == ClassifyApply

SpecClassify == InitClassify /\ [][NextClassify]_vars

----------------------------------------------------------------------------
(* addToHistory over a long conversation; fin is every message appended. *)

HistorySession == "A"

InitHistory ==
    /\ state = [s \in Sessions |-> InitialState]
    /\ stored = [s \in Sessions |-> None]
    /\ index = <<>>
    /\ calls = [c \in CallIds |-> IdleCall]
    /\ fin = <<>>
    /\ fout = NoInput

(* query() appends a user message and then an assistant message. *)
HistoryAppend(content) ==
    /\ Len(fin) < MaxAppends
    /\ LET role == IF Len(fin) % 2 = 0 THEN "user" ELSE "assistant"
       IN  /\ content \in (IF role = "user" THEN PipelineQueries ELSE {T2})
           /\ state' = [state EXCEPT ![HistorySession] = addToHistory(@, role, content)]
           /\ fin' = Append(fin, Message(role, content))
    /\ UNCHANGED <<stored, index, calls, fout>>

NextHistory == \E content \in PipelineQueries \cup {T2} : HistoryAppend(content)

SpecHistory == InitHistory /\ [][NextHistory]_vars

----------------------------------------------------------------------------
(* MCPRouter.route as a function of the intent and of what the provider call
   resolves to; fout records the providers called. *)

(* The intents classifyIntent can produce, and one whose target is a string
   outside the declared union. *)
DrawnIntents ==
    {classifyIntent(r) : r \in ClsResponses} \cup {Intent("general", 9, "metrics", NoParams)}

InitRoute ==
    /\ state = [s \in Sessions |-> InitialState]
    /\ stored = [s \in Sessions |-> None]
    /\ index = <<>>
    /\ calls = [c \in CallIds |-> IdleCall]
    /\ fin \in [intent : DrawnIntents, query : Queries]
    /\ fout = NoInput

(* Lines 36-59: return at once, or call the provider of the target. *)
RouteBegin ==
    /\ fout = NoInput
    /\ fout' = IF routeCallsProvider(fin.intent)
               THEN [k |-> "routeAwait", providers |-> <<fin.intent.targetMCP>>]
               ELSE [k |-> "route", providers |-> <<>>, providerOut |-> "none",
                     result |-> route(fin.intent, fin.query, "ok")]
    /\ UNCHANGED <<state, stored, index, calls, fin>>

(* The provider call resolves. *)
RouteResolve(out) ==
    /\ fout.k = "routeAwait"
    /\ fout' = [k |-> "route", providers |-> fout.providers, providerOut |-> out,
                result |-> route(fin.intent, fin.query, out)]
    /\ UNCHANGED <<state, stored, index, calls, fin>>

NextRoute == RouteBegin \/ \E out \in ProviderOutcomes : RouteResolve(out)

SpecRoute == InitRoute /\ [][NextRoute]_vars

----------------------------------------------------------------------------
(* LLMOrchestrator.synthesize and generateResponse as functions of their
   arguments and of what the generation oracle resolves to. *)

DrawnData ==
    {NullData, ErrorPayload("provider failed"), CyclicData("observability")}
        \cup {MockData(m, QA, "1h") : m \in Caps}

DrawnContexts == {<<>>, <<Message("user", QC), Message("assistant", T1)>>}

OrchestratorOutcomes == GenOutcomesOf(LLMTexts)

InitOrchestrator ==
    /\ state = [s \in Sessions |-> InitialState]
    /\ stored = [s \in Sessions |-> None]
    /\ index = <<>>
    /\ calls = [c \in CallIds |-> IdleCall]
    /\ fin \in [query : Queries, mcpData : DrawnData, context : DrawnContexts]
    /\ fout = NoInput

(* synthesize up to its oracle call (lines 107-144); when building the
   messages throws, the catch runs at once. *)
SynthesizeBegin ==
    /\ fout = NoInput
    /\ fout' = IF synthesizeCallsOracle(fin.query, fin.mcpData, fin.context)
               THEN [k |-> "synthesizeAwait",
                     messages |-> synthesizeMessages(fin.query, fin.mcpData,
                                                     fin.context).value]
               ELSE [k |-> "synthesize", out |-> [kind |-> "notCalled"],
                     result |-> synthesize(fin.query, fin.mcpData, fin.context,
                                           [kind |-> "throw"])]
    /\ UNCHANGED <<state, stored, index, calls, fin>>

(* synthesize: the oracle call resolves (lines 146-157). *)
SynthesizeResolve(out) ==
    /\ fout.k = "synthesizeAwait"
    /\ fout' = [k |-> "synthesize", out |-> out,
                result |-> synthesize(fin.query, fin.mcpData, fin.context, out)]
    /\ UNCHANGED <<state, stored, index, calls, fin>>

(* generateResponse(query): its oracle call resolves. *)
GenerateResolve(out) ==
    /\ fout = NoInput
    /\ fout' = [k |-> "generateResponse", out |-> out,
                result |-> Return(generateResponse(fin.query, out))]
    /\ UNCHANGED <<state, stored, index, calls, fin>>

NextOrchestrator ==
    \/ SynthesizeBegin
    \/ \E out \in OrchestratorOutcomes : SynthesizeResolve(out)
    \/ \E out \in OrchestratorOutcomes : GenerateResolve(out)

SpecOrchestrator == InitOrchestrator /\ [][NextOrchestrator]_vars

----------------------------------------------------------------------------
(* SemanticMemory.generateId: the identifier of an inserted entry, as a
   function of the question and of the clock. *)

CharCode(c) ==
    CASE c = " " -> 32
      [] c = "A" -> 65
      [] c = "B" -> 66
      [] c = "a" -> 97
      [] c = "b" -> 98
      [] c = "c" -> 99

toLowerCase(c) ==
    CASE c = "A" -> "a"
      [] c = "B" -> "b"
      [] OTHER -> c

(* question.toLowerCase().trim().replace(/\s+/g, ' ') on a run-length text
   whose adjacent runs differ. *)
normalize(runs) ==
    LET first == IF Len(runs) > 0 /\ runs[1].c = " " THEN 2 ELSE 1
        last == IF Len(runs) > 0 /\ runs[Len(runs)].c = " " THEN Len(runs) - 1
                ELSE Len(runs)
        trimmed == SubSeq(runs, first, last)
    IN  [i \in 1..Len(trimmed) |->
            [c |-> toLowerCase(trimmed[i].c),
             n |-> IF trimmed[i].c = " " THEN 1 ELSE trimmed[i].n]]

(* One round of the loop of simpleHash: ((hash << 5) - hash) + char, cut to 32
   bits.  The 32-bit value is kept as two 16-bit halves. *)
hashStep(h, code) ==
    LET lo == 31 * h.lo + code
        hi == 31 * h.hi + (lo \div 65536)
    IN  [hi |-> hi % 65536, lo |-> lo % 65536]

RECURSIVE hashRepeat(_, _, _)
hashRepeat(h, code, n) == IF n = 0 THEN h ELSE hashRepeat(hashStep(h, code), code, n - 1)

RECURSIVE hashRuns(_, _)
hashRuns(runs, h) ==
    IF runs = <<>> THEN h
    ELSE hashRuns(Tail(runs), hashRepeat(h, CharCode(runs[1].c), runs[1].n))

(* Math.abs of the signed 32-bit value. *)
abs32(h) ==
    IF h.hi < 32768 THEN h
    ELSE IF h.lo = 0 THEN [hi |-> 65536 - h.hi, lo |-> 0]
    ELSE [hi |-> 65535 - h.hi, lo |-> 65536 - h.lo]

(* simpleHash(str); toString(36) is one-to-one, the number stands for it. *)
simpleHash(runs) == abs32(hashRuns(runs, [hi |-> 0, lo |-> 0]))

(* `${simpleHash(normalized)}-${timestamp}` : the pair stands for the string. *)
generateId(question, now) ==
    [hash |-> simpleHash(normalize(question.runs)), timestamp |-> now]

(* Questions, among them texts that differ in case and white space only. *)
IdQuestions ==
    {QA, QB,
     UserText(<<Run("a", 2), Run(" ", 1), Run("b", 1)>>),
     UserText(<<Run("A", 2), Run(" ", 3), Run("B", 1)>>),
     UserText(<<Run(" ", 1), Run("a", 2), Run(" ", 1), Run("b", 1), Run(" ", 2)>>),
     UserText(<<Run("a", 2), Run("b", 1)>>)}

(* fin is the clock, fout the insert requests made so far. *)
InitIds ==
    /\ state = [s \in Sessions |-> InitialState]
    /\ stored = [s \in Sessions |-> None]
    /\ index = <<>>
    /\ calls = [c \in CallIds |-> IdleCall]
    /\ fin = [k |-> "clock", now |-> 0]
    /\ fout = <<>>

(* A millisecond passes. *)
Tick ==
    /\ fin.now < MaxClock
    /\ fin' = [fin EXCEPT !.now = @ + 1]
    /\ UNCHANGED <<state, stored, index, calls, fout>>

(* store(question, ...) of session s reaches vectorize.insert (lines 108-119);
   the sessions share the index and run independently of each other. *)
StoreInsert(s, q) ==
    /\ Len(fout) < MaxStores
    /\ fout' = Append(fout, [id |-> generateId(q, fin.now), session |-> s, question |-> q])
    /\ UNCHANGED <<state, stored, index, calls, fin>>

NextIds == Tick \/ \E s \in Sessions, q \in IdQuestions : StoreInsert(s, q)

SpecIds == InitIds /\ [][NextIds]_vars

----------------------------------------------------------------------------
(* Properties *)

Range(f) == {f[i] : i \in DOMAIN f}

(* c is the invocation the session last began. *)
Latest(c) == calls[c].pc # "idle" /\ \A d \in CallIds : d > c => calls[d].pc = "idle"

History(s) == state[s].conversationHistory

(* C1: whatever the external calls resolve to, query() completes by returning
   a text; no exception reaches its caller. *)
C1_QueryAlwaysReturnsText ==
    \A c \in CallIds :
        calls[c].pc = "done" =>
            /\ calls[c].result.some
            /\ calls[c].result.v.tag = "return"
            /\ IsText(calls[c].result.v.value)

(* An invocation ended in the top-level catch. *)
C1_Witness ==
    \E c \in CallIds :
        /\ calls[c].pc = "done"
        /\ calls[c].result.v.tag = "return"
        /\ calls[c].result.v.value.k = "errorResponse"

(* C2: on a cache hit, query() adds one to totalQueries and one to cacheHits,
   leaves the capability counters and the history as they were, and calls
   neither the classification oracle, nor a provider, nor the generation
   oracle. *)
C2_CacheHitFrame ==
    \A c \in CallIds :
        (Latest(c) /\ calls[c].cached.some) =>
            LET st == state[calls[c].sid]
                pre == calls[c].pre.v
            IN  /\ calls[c].pc \in {"saveHit", "done"}
                /\ st.totalQueries = pre.totalQueries + 1
                /\ st.cacheHits = pre.cacheHits + 1
                /\ st.mcpCalls = pre.mcpCalls
                /\ st.strayCalls = pre.strayCalls
                /\ st.conversationHistory = pre.conversationHistory
                /\ Range(calls[c].log) \cap {"classify", "provider", "generate"} = {}

(* A query was answered from the cache. *)
C2_Witness ==
    \E c \in CallIds :
        /\ calls[c].pc = "done"
        /\ calls[c].cached.some
        /\ calls[c].result.v.value.k = "cached"

(* C3: search returns the index's first match exactly when there is one and
   its score is at least the threshold, and never another match. *)
C3_SearchTopMatchAtThreshold ==
    fout.k = "search" =>
        LET out == fout.queryOut
            hit == /\ fin.embedOut = "ok"
                   /\ out.kind = "ok"
                   /\ Len(out.matches) > 0
                   /\ out.matches[1].score >= fin.threshold
        IN  /\ fout.result.some <=> hit
            /\ hit => /\ fout.result.v.score = out.matches[1].score
                      /\ fout.result.v.question = out.matches[1].metadata.question
                      /\ fout.result.v.answer = out.matches[1].metadata.answer
                      /\ fout.result.v.mcpSource = out.matches[1].metadata.mcpSource

(* A hit at exactly the default threshold, with a different entry second. *)
C3_Witness ==
    /\ fout.k = "search"
    /\ fin.threshold = 8500
    /\ fout.result.some
    /\ fout.result.v.score = 8500
    /\ Len(fout.queryOut.matches) >= 2
    /\ fout.queryOut.matches[2].metadata # fout.queryOut.matches[1].metadata

(* C4: from an empty cache and a fresh session, one query routed to a
   capability with every external call succeeding leaves one cache entry
   tagged with that capability, two history messages, totalQueries 1, that
   capability's counter 1, the other counters 0 and cacheHits 0. *)
C4_FirstRoutedQuery ==
    \A m \in Caps :
        ( /\ calls[1].pc = "done"
          /\ Latest(1)
          /\ calls[1].faults = 0
          /\ calls[1].intent.v.targetMCP = m ) =>
            LET st == state[calls[1].sid]
            IN  /\ Len(index) = 1
                /\ index[1].metadata.mcpSource = m
                /\ index[1].metadata.question = calls[1].q
                /\ st.conversationHistory =
                       << [role |-> "user", content |-> calls[1].q],
                          [role |-> "assistant", content |-> calls[1].result.v.value] >>
                /\ st.totalQueries = 1
                /\ st.mcpCalls[m] = 1
                /\ \A o \in Caps \ {m} : st.mcpCalls[o] = 0
                /\ st.cacheHits = 0

(* The first query went to the logs capability and everything succeeded. *)
C4_Witness ==
    /\ calls[1].pc = "done"
    /\ Latest(1)
    /\ calls[1].faults = 0
    /\ calls[1].intent.v.targetMCP = "observability"
    /\ Len(index) = 1

(* C5: the same text asked again right after a successful miss is served
   from the cache: the stored tag and the stored answer come back annotated,
   cacheHits is 1, totalQueries 2, the counters and the history stay. *)
C5_RepeatIsServedFromCache ==
    ( /\ calls[1].pc = "done" /\ calls[2].pc = "done" /\ Latest(2)
      /\ ~calls[1].cached.some
      /\ calls[1].faults = 0 /\ calls[2].faults = 0
      /\ calls[2].sid = calls[1].sid
      /\ calls[2].q = calls[1].q ) =>
        LET st == state[calls[1].sid]
            answer == calls[2].result.v.value
        IN  /\ answer.k = "cached"
            /\ answer.answer = calls[1].result.v.value
            /\ answer.source = index[1].metadata.mcpSource
            /\ calls[1].intent.v.targetMCP \in Caps =>
                   /\ answer.source = calls[1].intent.v.targetMCP
                   /\ st.mcpCalls[calls[1].intent.v.targetMCP] = 1
            /\ st.cacheHits = 1
            /\ st.totalQueries = 2
            /\ st.mcpCalls = calls[2].pre.v.mcpCalls
            /\ st.conversationHistory = calls[2].pre.v.conversationHistory
            /\ Len(st.conversationHistory) = 2

(* A routed query was repeated and both invocations ran without failure. *)
C5_Witness ==
    /\ calls[1].pc = "done" /\ calls[2].pc = "done"
    /\ ~calls[1].cached.some
    /\ calls[1].faults = 0 /\ calls[2].faults = 0
    /\ calls[2].q = calls[1].q
    /\ calls[1].intent.v.targetMCP = "observability"
    /\ calls[2].result.v.value.k = "cached"

(* C6: the history never holds more than 20 messages, and it is always the
   most recently appended ones, in the order they were appended. *)
C6_HistoryIsLast20 ==
    LET h == History(HistorySession)
    IN  /\ Len(h) <= 20
        /\ Len(h) = (IF Len(fin) > 20 THEN 20 ELSE Len(fin))
        /\ \A i \in 1..Len(h) : h[i] = fin[Len(fin) - Len(h) + i]

(* 25 messages were appended and 20 are kept. *)
C6_Witness ==
    /\ Len(fin) = 25
    /\ Len(History(HistorySession)) = 20
    /\ History(HistorySession)[1] = fin[6]

(* C7: every entry of the vector index holds, as its answer, the text that an
   invocation for the entry's question returned to its caller. *)
C7_StoredAnswerWasReturned ==
    \A i \in 1..Len(index) :
        \E c \in CallIds :
            /\ calls[c].q = index[i].metadata.question
            /\ calls[c].response = Some(index[i].metadata.answer)
            /\ calls[c].pc \in {"saveMiss", "done"}
            /\ calls[c].pc = "done" =>
                   calls[c].result.v = Return(index[i].metadata.answer)
            /\ (calls[c].pc = "done" /\ Latest(c)) =>
                   History(calls[c].sid)[Len(History(calls[c].sid))] =
                       [role |-> "assistant", content |-> index[i].metadata.answer]

(* An entry is in the index and the invocation that stored it has returned. *)
C7_Witness ==
    /\ Len(index) >= 1
    /\ \E c \in CallIds :
          /\ calls[c].pc = "done"
          /\ calls[c].result.v = Return(index[1].metadata.answer)

(* C8: when the classification oracle fails, the intent is general with
   confidence 0.3, no target and no parameters, and query() answers through
   generateResponse: no route, no provider, no exception. *)
C8_ClassifierFailureGoesDirect ==
    \A c \in CallIds :
        calls[c].cls = Some(ClsThrow) =>
            /\ calls[c].intent =
                   Some([type |-> "general", confidence |-> 3,
                         targetMCP |-> NULL, parameters |-> {}])
            /\ calls[c].pc \in {"generate", "embedStore", "insert", "saveMiss", "done"}
            /\ "generate" \in Range(calls[c].log)
            /\ "provider" \notin Range(calls[c].log)
            /\ calls[c].mcpSource = "none"
            /\ calls[c].pc = "done" => calls[c].result.v.tag = "return"

(* The classifier failed and the query was answered. *)
C8_Witness ==
    \E c \in CallIds :
        /\ calls[c].cls = Some(ClsThrow)
        /\ calls[c].pc = "done"
        /\ calls[c].result.v.tag = "return"

TableTools == {"query_observability", "search_docs", "query_bindings"}

SuppliedArguments(toolCall) ==
    IF toolCall.arguments.some THEN toolCall.arguments.v ELSE {}

(* C9: a selected capability of the table gives confidence 0.9, the table's
   type and target for the first tool call and the oracle's arguments (the
   empty map when there are none); no selection gives general, 0.5, no
   target, no parameters. *)
C9_ClassifyMapsFirstTool ==
    (fout.k = "classify" /\ fin.kind \in {"ok", "null"}) =>
        IF fin.kind = "null" \/ Len(fin.tool_calls) = 0
        THEN fout.intent = [type |-> "general", confidence |-> 5,
                            targetMCP |-> NULL, parameters |-> {}]
        ELSE LET first == fin.tool_calls[1]
             IN  first.name \in TableTools =>
                    /\ fout.intent.confidence = 9
                    /\ fout.intent.parameters = SuppliedArguments(first)
                    /\ first.name = "query_observability" =>
                          /\ fout.intent.type = "error_logs"
                          /\ fout.intent.targetMCP = "observability"
                    /\ first.name = "search_docs" =>
                          /\ fout.intent.type = "how_to"
                          /\ fout.intent.targetMCP = "documentation"
                    /\ first.name = "query_bindings" =>
                          /\ fout.intent.type = "list_resources"
                          /\ fout.intent.targetMCP = "bindings"

(* Two tool calls, the first of the table with arguments, the second another. *)
C9_Witness ==
    /\ fout.k = "classify"
    /\ fin.kind = "ok"
    /\ Len(fin.tool_calls) = 2
    /\ fin.tool_calls[1].name = "query_bindings"
    /\ fin.tool_calls[1].arguments.some
    /\ fin.tool_calls[1].arguments.v # {}
    /\ fin.tool_calls[2].name = "search_docs"
    /\ fout.intent.targetMCP = "bindings"

(* C10 as stated: a selected name the table lacks gives the same Intent as
   no selection. *)
C10_Original_AbsentSameAsNoSelection ==
    ( /\ fout.k = "classify" /\ fin.kind = "ok"
      /\ Len(fin.tool_calls) > 0
      /\ fin.tool_calls[1].name \notin TableTools \cup {NULL} ) =>
        fout.intent = [type |-> "general", confidence |-> 5,
                       targetMCP |-> NULL, parameters |-> {}]

(* C10 amended: a selected name that neither the table nor Object.prototype
   has gives type general and no target, as no selection does, but with
   confidence 0.9 and the oracle's arguments as parameters. *)
C10_AbsentToolIsGeneralWithHighConfidence ==
    ( /\ fout.k = "classify" /\ fin.kind = "ok"
      /\ Len(fin.tool_calls) > 0
      /\ fin.tool_calls[1].name \notin TableTools \cup {NULL, "constructor"} ) =>
        fout.intent = [type |-> "general", confidence |-> 9, targetMCP |-> NULL,
                       parameters |-> SuppliedArguments(fin.tool_calls[1])]

(* A name outside the table was selected, with arguments. *)
C10_Witness ==
    /\ fout.k = "classify"
    /\ fin.kind = "ok"
    /\ Len(fin.tool_calls) > 0
    /\ fin.tool_calls[1].name = "unknown_tool"
    /\ fin.tool_calls[1].arguments.some
    /\ fin.tool_calls[1].arguments.v # {}
    /\ fout.intent.type = "general"

(* C11: route with no target capability returns data null and cached false,
   and calls none of the three providers. *)
C11_RouteWithoutTarget ==
    (fout.k \in {"route", "routeAwait"} /\ fin.intent.targetMCP = NULL) =>
        /\ fout.k = "route"
        /\ fout.providers = <<>>
        /\ fout.result.data = NullData
        /\ fout.result.cached = FALSE

(* route returned for an intent without target that carries parameters. *)
C11_Witness ==
    /\ fout.k = "route"
    /\ fin.intent.targetMCP = NULL
    /\ fin.intent.parameters # {}
    /\ fout.result.data = NullData

(* C12: route does not throw.  When the provider call fails, or the target is
   not one of the three capabilities, its result is tagged with the intent's
   target and carries the error payload; query() hands that payload to
   synthesize as the routed data. *)
C12_RouteFailureBecomesData ==
    \A c \in CallIds :
        LET call == calls[c]
            failed == call.prov = "throw" \/ call.intent.v.targetMCP \notin Caps
        IN  (/\ call.intent.some
             /\ Truthy(call.intent.v.targetMCP)
             /\ call.pc \notin {"classify", "route"}) =>
                /\ failed <=> call.mcpData.k = "error"
                /\ failed =>
                      /\ call.mcpSource = call.intent.v.targetMCP
                      /\ call.mcpData.suggestion = ErrorSuggestion
                      /\ \E i \in 1..Len(call.log) : call.log[i] = "generate"
                      /\ LET m == synthesizeMessages(call.q, call.mcpData, call.context)
                         IN  /\ m.tag = "return"
                             /\ \E i \in 1..Len(m.value) :
                                    m.value[i] =
                                        Message("system",
                                                [k |-> "mcpResponse",
                                                 json |-> [k |-> "json", data |-> call.mcpData]])

(* A provider call failed and the query was answered by synthesize. *)
C12_Witness ==
    \E c \in CallIds :
        /\ calls[c].prov = "throw"
        /\ calls[c].pc = "done"
        /\ calls[c].mcpData.k = "error"
        /\ calls[c].result.v = Return(T2)

(* C13 as stated: synthesize never throws; it returns the oracle's text when
   the oracle succeeds, the raw-data fallback when the oracle gives no text and
   routed data is present, and the generic apology when it is absent. *)
C13_Original_SynthesizeNeverThrows ==
    fout.k = "synthesize" =>
        /\ fout.result.tag = "return"
        /\ fout.out.kind = "ok" => fout.result.value = fout.out.text
        /\ fout.out.kind # "ok" =>
               fout.result.value =
                   (IF DataTruthy(fin.mcpData)
                    THEN [k |-> "rawFallback", data |-> fin.mcpData]
                    ELSE [k |-> "lit", s |-> SynthFallbackText])

(* synthesize threw: the routed data cannot be serialized. *)
C13_Witness ==
    /\ fout.k = "synthesize"
    /\ fout.result.tag = "throw"
    /\ fin.mcpData.k = "cyclic"

StartsWith(str, prefix) ==
    Len(str) >= Len(prefix) /\ SubSeq(str, 1, Len(prefix)) = prefix

(* The texts synthesize can fall back to. *)
SynthesizeFallbacks ==
    {r.value : r \in {x \in {createFallbackResponse(q, d) : q \in Queries, d \in DrawnData} :
                          x.tag = "return"}}

(* Two fallback texts are the same string. *)
SameFallback(direct, synth) ==
    IF synth.k = "lit" THEN direct.s = synth.s
    ELSE StartsWith(direct.s, RawFallbackPrefix)

(* C14: generateResponse never throws; when the oracle fails or gives no text
   it returns one of two fixed messages, and neither is a message synthesize
   can fall back to. *)
C14_GenerateResponseFallbacks ==
    fout.k = "generateResponse" =>
        /\ fout.result.tag = "return"
        /\ IsText(fout.result.value)
        /\ fout.out.kind = "ok" => fout.result.value = fout.out.text
        /\ fout.out.kind # "ok" =>
              /\ fout.result.value.k = "lit"
              /\ fout.result.value.s \in {DirectNoTextText, DirectErrorText}
              /\ \A f \in SynthesizeFallbacks : ~SameFallback(fout.result.value, f)

(* The oracle call of generateResponse was rejected. *)
C14_Witness ==
    /\ fout.k = "generateResponse"
    /\ fout.out.kind = "throw"
    /\ fout.result.value = [k |-> "lit", s |-> DirectErrorText]

(* C15: search does not throw.  When its embedding call fails or resolves
   malformed, search returns null and the index is not queried; when the index
   query fails, search returns null; query() then goes on to classifyIntent. *)
C15_SearchFailureIsAMiss ==
    \A c \in CallIds :
        LET call == calls[c]
        IN  call.srch \in {"embedFailed", "queryFailed"} =>
                /\ ~call.cached.some
                /\ call.pc \notin {"embedSearch", "vectorQuery", "saveHit"}
                /\ call.srch = "embedFailed" =>
                       /\ "vectorQuery" \notin Range(call.log)
                       /\ SubSeq(call.log, 1, 2) = <<"embed", "classify">>
                /\ call.srch = "queryFailed" =>
                       SubSeq(call.log, 1, 3) = <<"embed", "vectorQuery", "classify">>
                /\ call.pc = "done" => call.result.v.tag = "return"
                /\ Latest(c) => state[call.sid].cacheHits = call.pre.v.cacheHits

(* The embedding call of search resolved malformed and the query was answered
   on the miss path. *)
C15_Witness ==
    \E c \in CallIds :
        /\ calls[c].srch = "embedFailed"
        /\ calls[c].pc = "done"
        /\ calls[c].result.v = Return(T2)

Stored == {c \in CallIds : calls[c].sto = "stored"}

(* C16: store does not throw and does not change the answer.  A failed
   embedding call means no insert is attempted, a failed insert adds nothing;
   whatever store did, query() returns the response it had, appends the user
   message and that response, and hands the same state to the durable store. *)
C16_StoreIsBestEffort ==
    /\ Len(index) = Cardinality(Stored)
    /\ \A c \in CallIds :
          LET call == calls[c]
              s == call.sid
          IN  (call.response.some /\ call.pc \in {"saveMiss", "done"}) =>
                /\ call.sto \in {"embedFailed", "insertFailed", "stored"}
                /\ call.sto = "embedFailed" => "insert" \notin Range(call.log)
                /\ call.log[Len(call.log)] = "put"
                /\ call.putArg.v.conversationHistory =
                       recordTurn(call.pre.v, call.q, call.response.v).conversationHistory
                /\ call.putArg.v.totalQueries = call.pre.v.totalQueries + 1
                /\ call.putArg.v.cacheHits = call.pre.v.cacheHits
                /\ call.putArg.v.mcpCalls =
                       incrementMCPCounter(call.pre.v, call.mcpSource).mcpCalls
                /\ Latest(c) => state[s] = call.putArg.v
                /\ call.pc = "done" => call.result.v = Return(call.response.v)

(* The insert failed and the query was answered all the same. *)
C16_Witness ==
    \E c \in CallIds :
        /\ calls[c].sto = "insertFailed"
        /\ calls[c].pc = "done"
        /\ calls[c].result.v = Return(T2)
        /\ Len(state[calls[c].sid].conversationHistory) = 2

(* C17 as stated: any two store calls that reach the insert, for whatever
   questions, sessions and clock values, use distinct identifiers. *)
C17_Original_DistinctIdentifiers ==
    \A i, j \in 1..Len(fout) : i # j => fout[i].id # fout[j].id

(* Two sessions stored near-duplicate questions within one millisecond under
   one identifier. *)
C17_Witness ==
    /\ Len(fout) = 2
    /\ fout[1].id = fout[2].id
    /\ fout[1].session # fout[2].session
    /\ fout[1].question # fout[2].question

(* The place of each external call in the order of query(): the embedding
   call of search, the index query, the classifier, the provider, the
   generation oracle, the embedding call of store, the insert, the put. *)
CallRank(log, i) ==
    CASE log[i] = "embed" -> IF i = 1 THEN 1 ELSE 6
      [] log[i] = "vectorQuery" -> 2
      [] log[i] = "classify" -> 3
      [] log[i] = "provider" -> 4
      [] log[i] = "generate" -> 5
      [] log[i] = "insert" -> 7
      [] log[i] = "put" -> 8

(* C18: the external calls of one invocation are issued one after the other
   in the order search, classification, routing, synthesis, store,
   persistence; store has ended before the state is saved and before the
   answer is returned. *)
C18_CallsInPipelineOrder ==
    \A c \in CallIds :
        LET call == calls[c]
        IN  /\ \A i, j \in 1..Len(call.log) :
                  i < j => CallRank(call.log, i) < CallRank(call.log, j)
            /\ call.pc # "idle" => call.log[1] = "embed"
            /\ (call.pc = "saveMiss" \/ (call.pc = "done" /\ call.response.some)) =>
                  /\ call.sto # "none"
                  /\ \E i \in 2..Len(call.log) : call.log[i] = "embed"
                  /\ "classify" \in Range(call.log)
                  /\ call.log[Len(call.log)] = "put"
            /\ (call.pc = "done" /\ call.response.some) => call.putOut # "none"

(* A routed query made all eight calls, in order. *)
C18_Witness ==
    \E c \in CallIds :
        /\ calls[c].pc = "done"
        /\ calls[c].log = <<"embed", "vectorQuery", "classify", "provider",
                            "generate", "embed", "insert", "put">>

(* C19 as stated: every invocation, whether it ends on the hit path, the miss
   path or in the top-level catch, writes the state to the durable store
   exactly once, after its last change of the state and before it returns. *)
C19_Original_PersistsOncePerInvocation ==
    \A c \in CallIds :
        calls[c].pc = "done" =>
            /\ Cardinality({i \in 1..Len(calls[c].log) : calls[c].log[i] = "put"}) = 1
            /\ calls[c].log[Len(calls[c].log)] = "put"
            /\ Latest(c) => calls[c].putArg = Some(state[calls[c].sid])

(* An invocation ended in the catch: the counters moved, nothing was written. *)
C19_Witness ==
    \E c \in CallIds :
        /\ calls[c].pc = "done"
        /\ calls[c].result.v.value.k = "errorResponse"
        /\ "put" \notin Range(calls[c].log)
        /\ state[calls[c].sid].totalQueries = calls[c].pre.v.totalQueries + 1
        /\ state[calls[c].sid].mcpCalls # calls[c].pre.v.mcpCalls
        /\ stored[calls[c].sid] # Some(state[calls[c].sid])

(* What an operation returns when its put succeeds. *)
ResultOnSave(call) ==
    IF call.q = NoText THEN Void
    ELSE IF call.cached.some THEN cachedAnswer(call.cached.v)
    ELSE call.response.v

(* C20: when the put of saveState fails during query() or clearHistory(),
   the operation returns what it returns when the put succeeds, and the
   in-memory state keeps the values the operation gave it. *)
C20_PutFailureIsSwallowed ==
    \A c \in CallIds :
        LET call == calls[c]
        IN  call.putOut # "none" =>
                /\ call.pc = "done"
                /\ call.result.v = Return(ResultOnSave(call))
                /\ Latest(c) => state[call.sid] = call.putArg.v
                /\ call.putOut = "ok" => (Latest(c) => stored[call.sid] = call.putArg)
                /\ call.q = NoText => call.putArg.v.conversationHistory = <<>>
                /\ call.q # NoText =>
                       call.putArg.v.totalQueries = call.pre.v.totalQueries + 1

(* The put failed in clearHistory: the history is empty in memory, the stored
   state still holds it. *)
C20_Witness ==
    \E c \in CallIds :
        /\ calls[c].pc = "done"
        /\ calls[c].q = NoText
        /\ calls[c].putOut = "throw"
        /\ calls[c].result.v = Return(Void)
        /\ state[calls[c].sid].conversationHistory = <<>>
        /\ stored[calls[c].sid].some
        /\ stored[calls[c].sid].v.conversationHistory # <<>>

(* C21: when the durable store already holds a state S at construction, the
   first query operates on S whatever the timing of the storage read: once it
   has completed and persisted, the stored total is S's total plus one and S's
   capability counters and history are still there.  The read of
   initializeState is not awaited, so a query that begins before it resolves
   counts on the default state, which the read then replaces. *)
C21_Original_FirstQueryOnLoadedState ==
    ( /\ fin.k = "initializeState"
      /\ fin.pc # "failed"
      /\ calls[1].pc = "done"
      /\ calls[1].putOut = "ok"
      /\ calls[2].pc = "idle" )
    => /\ stored[LoadSession].v.totalQueries = LoadedState.totalQueries + 1
       /\ \A m \in Caps :
             stored[LoadSession].v.mcpCalls[m] >= LoadedState.mcpCalls[m]
       /\ Len(stored[LoadSession].v.conversationHistory)
             >= Len(LoadedState.conversationHistory)
       /\ SubSeq(stored[LoadSession].v.conversationHistory, 1,
                 Len(LoadedState.conversationHistory))
             = LoadedState.conversationHistory

(* The query began on the default state, the read then resolved with S, and
   the state persisted at the end carries S's total without the increment. *)
C21_Witness ==
    /\ fin.k = "initializeState"
    /\ fin.pc = "loaded"
    /\ calls[1].pc = "done"
    /\ calls[1].putOut = "ok"
    /\ calls[2].pc = "idle"
    /\ calls[1].pre = Some(InitialState)
    /\ stored[LoadSession].v.totalQueries = LoadedState.totalQueries

(* C22, as stated: a query to session A returns the same answer whatever
   queries were issued to session B.  With an empty index and no query to B,
   the first query to A is never answered from the cache; so it is not
   answered from the cache in any run. *)
C22_Original_SessionsDoNotInterfere ==
    \A c \in CallIds :
        ( /\ calls[c].pc = "done"
          /\ calls[c].sid = "A"
          /\ calls[c].pre.v.totalQueries = 0 )
        => calls[c].result.v.value.k # "cached"

(* C22, amended: the sessions share the vector index and nothing else.  A
   step of an invocation on session B leaves session A's in-memory state and
   session A's stored state as they are; it can change the index. *)
C22_SessionsShareOnlyTheIndex ==
    [][\A c \in CallIds :
          (calls'[c] # calls[c] /\ calls'[c].sid = OtherSession)
          => /\ state'["A"] = state["A"]
             /\ stored'["A"] = stored["A"]]_vars

(* Session B's query was stored in the index, and session A's first query
   was then answered from it. *)
C22_Witness ==
    /\ calls[1].sid = OtherSession
    /\ calls[1].pc = "done"
    /\ calls[1].sto = "stored"
    /\ stored[OtherSession].some
    /\ calls[2].sid = "A"
    /\ calls[2].pc = "done"
    /\ calls[2].srch = "hit"
    /\ calls[2].result.v.value.k = "cached"
    /\ state["A"].cacheHits = 1

(* C23: on a cache miss whose intent names a capability, query() adds one to
   that capability's counter, once route has resolved and whether the provider
   succeeded or failed, and leaves the other two counters as they were; on a
   miss whose intent has no target no capability counter changes. *)
C23_MissCountsTheTargetOnce ==
    \A c \in CallIds :
        (Latest(c) /\ calls[c].intent.some) =>
            LET st == state[calls[c].sid]
                pre == calls[c].pre.v
                target == calls[c].intent.v.targetMCP
            IN  /\ (target \in Caps /\ calls[c].pc # "route") =>
                       st.mcpCalls = [pre.mcpCalls EXCEPT ![target] = @ + 1]
                /\ (target \in Caps /\ calls[c].pc = "route") =>
                       st.mcpCalls = pre.mcpCalls
                /\ target = NULL => st.mcpCalls = pre.mcpCalls

(* A second query named the bindings capability, its provider failed, and the
   invocation completed. *)
C23_Witness ==
    /\ calls[2].pc = "done"
    /\ calls[2].intent.some
    /\ calls[2].intent.v.targetMCP = "bindings"
    /\ calls[2].prov = "throw"
    /\ calls[1].pc = "done"
    /\ calls[1].intent.some
    /\ state["A"].mcpCalls["bindings"] = calls[2].pre.v.mcpCalls["bindings"] + 1

(* The i-th character of a run-length encoded text. *)
RECURSIVE CharAt(_, _)
CharAt(runs, i) ==
    IF i <= Head(runs).n THEN Head(runs).c ELSE CharAt(Tail(runs), i - Head(runs).n)

(* cut is the first min(n, length) characters of whole. *)
IsFirstChars(cut, whole, n) ==
    /\ cut.k = whole.k
    /\ RunsLen(cut.runs) = Min(n, RunsLen(whole.runs))
    /\ \A i \in 1..RunsLen(cut.runs) : CharAt(cut.runs, i) = CharAt(whole.runs, i)

(* C24: the conversation context is made of the last min(4, n) messages of
   the history, in their order, each with its role and the first 200
   characters of its content at most; an empty history gives the empty
   context, for which synthesize adds no context message. *)
C24_ContextIsLastFourCut ==
    fout.k = "context" =>
        LET h == fout.history
            n == Len(h)
            m == Min(4, n)
            ctxMessages == {j \in 1..Len(fout.messages) :
                               fout.messages[j].content.k = "previousContext"}
        IN  /\ Len(fout.context) = m
            /\ \A i \in 1..m :
                  /\ fout.context[i].role = h[n - m + i].role
                  /\ IsFirstChars(fout.context[i].content, h[n - m + i].content, 200)
            /\ n = 0 => fout.context = <<>> /\ ctxMessages = {}
            /\ n > 0 => /\ Cardinality(ctxMessages) = 1
                        /\ \A j \in ctxMessages :
                              fout.messages[j].content.context = fout.context

(* Six messages in the history, the first two long and outside the window,
   and a long one, cut, inside it. *)
C24_Witness ==
    /\ fout.k = "context"
    /\ Len(fout.history) = 6
    /\ fout.history[1].content = QLong
    /\ fout.history[6].content = T2
    /\ Len(fout.context) = 4
    /\ fout.context[4].content = OracleText(<<Run("s", 200)>>)
    /\ fout.context[3].content = UserText(<<Run("a", 150), Run("b", 50)>>)

(* C25: getHistory returns the last min(10, n) messages of the history in
   their order and getStats the current counters; neither changes the
   in-memory state, and neither writes to the durable store. *)
C25_ReadsReturnAndLeaveState ==
    [][fout' # fout =>
          LET h == state[ReadSession].conversationHistory
              n == Len(h)
              m == Min(10, n)
          IN  /\ state' = state
              /\ stored' = stored
              /\ index' = index
              /\ fout'.k = "getHistory" =>
                    /\ Len(fout'.value) = m
                    /\ \A i \in 1..m : fout'.value[i] = h[n - m + i]
              /\ fout'.k = "getStats" =>
                    /\ fout'.value.totalQueries = state[ReadSession].totalQueries
                    /\ fout'.value.cacheHits = state[ReadSession].cacheHits
                    /\ fout'.value.mcpCalls = state[ReadSession].mcpCalls]_vars

(* The history was read after it had grown past ten messages: the oldest are
   left out, the newest turn is in. *)
C25_Witness ==
    /\ fout.k = "getHistory"
    /\ Len(History(ReadSession)) = 12
    /\ Len(fout.value) = 10
    /\ fout.value[9] = Message("user", QA)
    /\ stored[ReadSession].v = state[ReadSession]

(* C26: clearHistory empties the history and hands the state to the store.
   It leaves totalQueries, cacheHits, the capability counters and the
   connection flags as they were and changes no entry of the vector index, so
   a query answered before the clear is still served from the cache after it
   (the witness). *)
C26_ClearLeavesCountersAndCache ==
    [][(fin' # fin /\ fin'.k = "clearHistory") =>
          LET s == RequestSession
          IN  /\ index' = index
              /\ fin'.pc = "put" =>
                    /\ state'[s].conversationHistory = <<>>
                    /\ state'[s].totalQueries = state[s].totalQueries
                    /\ state'[s].cacheHits = state[s].cacheHits
                    /\ state'[s].mcpCalls = state[s].mcpCalls
                    /\ state'[s].strayCalls = state[s].strayCalls
                    /\ state'[s].mcpConnections = state[s].mcpConnections
                    /\ fin'.putArg = Some(state'[s])
                    /\ stored' = stored
              /\ fin'.pc = "done" =>
                    /\ state' = state
                    /\ fin'.putOut = "ok" => stored'[s] = Some(state[s])]_vars

(* A question was answered and stored, the capabilities were connected, the
   history was then cleared, and the same question was answered from the
   cache. *)
C26_Witness ==
    /\ calls[1].pc = "done"
    /\ calls[1].sto = "stored"
    /\ fin.k = "clearHistory"
    /\ fin.pc = "done"
    /\ fin.putOut = "ok"
    /\ Len(fin.pre.conversationHistory) = 2
    /\ fin.pre.mcpConnections["bindings"]
    /\ calls[2].pc = "done"
    /\ calls[2].q = calls[1].q
    /\ calls[2].pre.v.conversationHistory = <<>>
    /\ calls[2].result.v.value.k = "cached"
    /\ calls[2].result.v.value.answer = calls[1].response.v
    /\ state[RequestSession].totalQueries = 2
    /\ state[RequestSession].mcpConnections["bindings"]

(* C27: if every external call eventually resolves or fails, every query()
   invocation eventually completes, and the session, once processing, is
   eventually idle again: no path waits forever or loops. *)
C27_EveryQueryCompletes ==
    /\ \A c \in CallIds : InFlight(c) ~> (calls[c].pc = "done")
    /\ (\E c \in CallIds : InFlight(c)) ~> (\A c \in CallIds : ~InFlight(c))

(* The first invocation has completed after one of its calls failed, and the
   second is at its last await. *)
C27_Witness ==
    /\ calls[1].pc = "done"
    /\ calls[1].faults = 1
    /\ calls[2].pc = "saveMiss"
    /\ ~(\A c \in CallIds : ~InFlight(c))

(* How many times an invocation issued the external call named what. *)
Issued(c, what) == Cardinality({i \in 1..Len(calls[c].log) : calls[c].log[i] = what})

ExternalCalls ==
    {"embed", "vectorQuery", "classify", "provider", "generate", "insert", "put"}

(* C28: no external call is retried.  Within one invocation the classifier,
   the generation oracle, a provider, the index query, the index insert and
   the storage put are each called at most once and the embedding service at
   most twice (once by search, once by store), whatever fails. *)
C28_NoCallIsRetried ==
    \A c \in CallIds :
        /\ Range(calls[c].log) \subseteq ExternalCalls
        /\ Issued(c, "embed") <= 2
        /\ \A what \in ExternalCalls \ {"embed"} : Issued(c, what) <= 1

(* An invocation whose provider failed went through all eight calls, each
   once and the embedding twice. *)
C28_Witness ==
    \E c \in CallIds :
        /\ calls[c].pc = "done"
        /\ calls[c].prov = "throw"
        /\ calls[c].log = <<"embed", "vectorQuery", "classify", "provider",
                            "generate", "embed", "insert", "put">>

(* The turn made of the messages 2i-1 and 2i of a history is one the instance
   loaded, or the question and the answer of one invocation. *)
IsTurn(h, i) ==
    /\ h[2 * i - 1].role = "user"
    /\ h[2 * i].role = "assistant"
    /\ \/ <<h[2 * i - 1], h[2 * i]>> = Turns(1, QC, T2)
       \/ \E c \in CallIds :
             /\ calls[c].q = h[2 * i - 1].content
             /\ calls[c].response = Some(h[2 * i].content)

(* C29: whenever no query() is in progress, the history has even length and
   is a sequence of turns: a user message followed by the assistant message
   that answers it.  This holds once the cap of 20 has cut the history and
   when invocations on the same instance interleave. *)
C29_HistoryIsASequenceOfTurns ==
    (\A c \in CallIds : ~InFlight(c)) =>
        LET h == History(ConcurrentSession)
        IN  /\ Len(h) % 2 = 0
            /\ \A i \in 1..(Len(h) \div 2) : IsTurn(h, i)

(* Two invocations overlapped: the second began before the first had
   appended its turn, and appended its own turn first; the history was cut
   to 20 messages. *)
C29_Witness ==
    /\ \A c \in CallIds : calls[c].pc = "done"
    /\ calls[1].q # calls[2].q
    /\ calls[2].pre.v.conversationHistory = calls[1].pre.v.conversationHistory
    /\ Len(History(ConcurrentSession)) = HistoryCap
    /\ History(ConcurrentSession)[17] = Message("user", calls[2].q)
    /\ History(ConcurrentSession)[19] = Message("user", calls[1].q)
    /\ History(ConcurrentSession)[20] = Message("assistant", calls[1].response.v)

(* The invocations that took the miss path: search returned null. *)
Misses == {c \in CallIds : calls[c].srch \in {"miss", "embedFailed", "queryFailed"}}

(* C30: the vector index only grows by inserts, and only on the miss path.
   Every change of the index is one entry appended by the store() of an
   invocation that was not served from the cache, the entries already there
   staying as they are; and the index never has more entries than there were
   cache-miss queries. *)
C30_IndexOnlyGrowsOnMisses ==
    /\ [][index' # index =>
             \E c \in Misses :
                /\ calls[c].pc = "insert"
                /\ calls'[c].pc = "saveMiss"
                /\ ~calls[c].cached.some
                /\ Len(index') = Len(index) + 1
                /\ SubSeq(index', 1, Len(index)) = index
                /\ index'[Len(index')].metadata.question = calls[c].q]_vars
    /\ [](Len(index) <= Cardinality(Misses))

(* The question was stored by one invocation and, its search having failed,
   stored again by a second with another source tag: two entries, two
   misses, the first entry as it was. *)
C30_Witness ==
    /\ Len(index) = 2
    /\ index[1].metadata.question = index[2].metadata.question
    /\ index[1] # index[2]
    /\ Cardinality(Misses) = 2
    /\ \A c \in CallIds : calls[c].pc = "done"

(* C31: the messages synthesize sends to the generation oracle are, in order,
   the fixed system instruction, the previous-context note exactly when the
   context is not empty, the backend-data note exactly when routed data is
   present, and last the user query, the only message of role user. *)
C31_SynthesizeMessageOrder ==
    fout.k = "synthesizeAwait" =>
        LET m == fout.messages
            hasContext == fin.context # <<>>
            hasData == fin.mcpData # NullData
            ctxAt == 2
            dataAt == IF hasContext THEN 3 ELSE 2
        IN  /\ Len(m) = 2 + (IF hasContext THEN 1 ELSE 0) + (IF hasData THEN 1 ELSE 0)
            /\ m[1] = Message("system", Lit(SYSTEM_PROMPT))
            /\ hasContext => /\ m[ctxAt].role = "system"
                             /\ m[ctxAt].content.k = "previousContext"
                             /\ m[ctxAt].content.context = fin.context
            /\ hasData => /\ m[dataAt].role = "system"
                          /\ m[dataAt].content.k = "mcpResponse"
                          /\ m[dataAt].content.json.data = fin.mcpData
            /\ m[Len(m)] = Message("user", fin.query)
            /\ {j \in 1..Len(m) : m[j].role = "user"} = {Len(m)}
            /\ Cardinality({j \in 1..Len(m) : m[j].content.k = "previousContext"})
                  = (IF hasContext THEN 1 ELSE 0)
            /\ Cardinality({j \in 1..Len(m) : m[j].content.k = "mcpResponse"})
                  = (IF hasData THEN 1 ELSE 0)

(* synthesize awaits the oracle with all four messages sent. *)
C31_Witness ==
    /\ fout.k = "synthesizeAwait"
    /\ fin.context # <<>>
    /\ fin.mcpData.k = "mock"
    /\ Len(fout.messages) = 4

(* Two run-length encoded texts have the same first n characters (or are
   equal when shorter). *)
AgreeOnFirst(a, b, n) ==
    /\ Min(n, RunsLen(a.runs)) = Min(n, RunsLen(b.runs))
    /\ \A i \in 1..Min(n, RunsLen(a.runs)) : CharAt(a.runs, i) = CharAt(b.runs, i)

(* C32: a text longer than 1000 characters is not rejected.  search and store
   send the embedding service its first 1000 characters; store keeps the
   whole question and the whole answer in the entry's metadata; and two
   questions with the same first 1000 characters are sent as the same text. *)
C32_EmbedsFirstThousandStoresAll ==
    /\ (fout.k \in {"search", "store"} /\ fin.embedOut = "ok") =>
          /\ fout.embedding.some
          /\ IsFirstChars(fout.embedding.v, fin.question, 1000)
    /\ \A i \in 1..Len(index) :
          /\ IsFirstChars(index[i].values, index[i].metadata.question, 1000)
          /\ index[i].metadata.question \in LongQuestions
          /\ index[i].metadata.answer \in LongAnswers
    /\ (fout.k = "store" /\ fout.inserted) =>
          /\ index[Len(index)].metadata.question = fin.question
          /\ index[Len(index)].metadata.answer = fin.answer
    /\ \A i, j \in 1..Len(index) :
          AgreeOnFirst(index[i].metadata.question, index[j].metadata.question, 1000)
              => index[i].values = index[j].values

(* Two questions of 1050 and 1200 characters with the same first 1000 were
   stored with a 1500-character answer: one vector, both questions whole. *)
C32_Witness ==
    /\ Len(index) = 2
    /\ index[1].metadata.question = QLong1
    /\ index[2].metadata.question = QLong2
    /\ index[1].values = index[2].values
    /\ index[2].metadata.answer = TLong
    /\ RunsLen(index[2].metadata.answer.runs) = 1500
    /\ fout.k = "store"

(* The counters of a state: none negative, and the cache hits and the
   capability calls together no more than the queries. *)
CountersConsistent(st) ==
    /\ st.totalQueries >= 0
    /\ st.cacheHits >= 0
    /\ \A m \in Caps : st.mcpCalls[m] >= 0
    /\ st.cacheHits + st.mcpCalls["observability"] + st.mcpCalls["documentation"]
          + st.mcpCalls["bindings"] <= st.totalQueries

(* C33: in every reachable state of a session, in memory and in the store,
   cacheHits plus the three capability counters is at most totalQueries and
   no counter is negative.  It holds while the instance runs on one state
   object; the read of initializeState resolving inside a query replaces the
   object after totalQueries was counted and before the capability or the
   cache hit is. *)
C33_Original_CountersWithinTotal ==
    \A s \in Sessions :
        /\ CountersConsistent(state[s])
        /\ stored[s].some => CountersConsistent(stored[s].v)

(* The first query after construction was routed; the stored state, with one
   query and one documentation call, was loaded while the query awaited its
   classification, and the query's call was then counted on it. *)
C33_Witness ==
    /\ fin.k = "initializeState"
    /\ fin.pc = "loaded"
    /\ calls[1].pre = Some(InitialState)
    /\ calls[1].intent.some
    /\ calls[1].intent.v.targetMCP = "documentation"
    /\ state[LoadSession].totalQueries = 1
    /\ state[LoadSession].mcpCalls["documentation"] = 2

(* C34: when the invocations on one instance interleave at their awaits, no
   update is lost: once all have completed, totalQueries has grown by their
   number, and, every put having succeeded, the state last written to the
   store is the in-memory state, so that one of the puts carried it.  An
   invocation that ends in the catch of query() has changed the state and
   puts nothing. *)
C34_Original_NoUpdateIsLost ==
    ( /\ \A c \in CallIds : calls[c].pc = "done"
      /\ \A c \in CallIds : calls[c].putOut \in {"ok", "none"} )
    => /\ state[ConcurrentSession].totalQueries = NearCapTurns + MaxCalls
       /\ \E c \in CallIds : calls[c].putArg = Some(state[ConcurrentSession])

(* Two invocations overlapped; the first saved the state; the second counted
   its provider call after that and ended in the catch: the store holds the
   first invocation's state, one capability call behind the memory. *)
C34_Witness ==
    /\ \A c \in CallIds : calls[c].pc = "done"
    /\ calls[2].pre.v.conversationHistory = calls[1].pre.v.conversationHistory
    /\ calls[2].pre.v.totalQueries = NearCapTurns + 1
    /\ calls[1].putOut = "ok"
    /\ calls[2].putOut = "none"
    /\ calls[2].result.v.value.k = "errorResponse"
    /\ state[ConcurrentSession].totalQueries = NearCapTurns + MaxCalls
    /\ stored[ConcurrentSession] = calls[1].putArg
    /\ stored[ConcurrentSession].v.mcpCalls # state[ConcurrentSession].mcpCalls

(* C35: the page sends consecutive chat messages each with the session id
   it holds, which every answer overwrites with its sessionId field, and the
   worker routes them all to one instance: each answer names the instance
   of the answer before it and reports one query more.  The agent answers
   with its id's text, and the worker looks the next message up by
   idFromName of that text, which is another instance. *)
C35_Original_MessagesReachOneInstance ==
    \A i \in 1..(Len(fin.replies) - 1) :
        /\ fin.replies[i + 1].sessionId = fin.replies[i].sessionId
        /\ fin.replies[i + 1].stats.totalQueries = fin.replies[i].stats.totalQueries + 1

(* Two messages were answered: the first by the instance named by the
   generated session id, the second by the instance named by the first
   one's id text, which counted it as its first query. *)
C35_Witness ==
    /\ fin.k = "client"
    /\ Len(fin.replies) = 2
    /\ fin.replies[1].sessionId = idToString(idFromName(generateSessionId))
    /\ fin.replies[2].sessionId = idToString(idFromName(fin.replies[1].sessionId))
    /\ fin.replies[2].sessionId # fin.replies[1].sessionId
    /\ fin.replies[2].stats.totalQueries = 1
    /\ state[idFromName(generateSessionId)].totalQueries = 1
    /\ state[idFromName(NameAt(1))].totalQueries = 1


(* C40: the page never has two /api/chat requests in flight.  sendMessage
   issues a request only when isProcessing is false and the trimmed input is
   not empty, and while isProcessing is true a call of it changes neither
   the flags nor the requests; when a request settles, by an answer, a
   response that is not OK or a rejected fetch, isProcessing is false again
   and the input is enabled. *)
C40_OneChatRequestAtATime ==
    /\ [](/\ Len(fout.inflight) <= 1
          /\ fin.isProcessing <=> Len(fout.inflight) = 1
          /\ fin.disabled <=> fin.isProcessing)
    /\ [][Len(fout'.inflight) > Len(fout.inflight)
            => /\ ~fin.isProcessing
               /\ fout.inflight = <<>>
               /\ fout'.inflight[1].message # <<>>
               /\ fout'.inflight[1].message = trim(fout'.inflight[1].message)]_vars
    /\ [][fin.isProcessing /\ Len(fout'.inflight) >= Len(fout.inflight)
            => /\ fin'.isProcessing /\ fin'.disabled
               /\ Len(fout'.inflight) = Len(fout.inflight)
               /\ fout'.sent = fout.sent
               /\ fin'.sessionId = fin.sessionId]_vars
    /\ [][Len(fout'.inflight) < Len(fout.inflight)
            => ~fin'.isProcessing /\ ~fin'.disabled]_vars

(* A first request ended in the catch and the page was enabled again; a
   second is in flight, and an example query clicked meanwhile has been put
   in the input and not sent. *)
C40_Witness ==
    /\ fin.k = "client"
    /\ fin.failures = 1
    /\ fin.replies = <<>>
    /\ fout.sent = 2
    /\ Len(fout.inflight) = 1
    /\ fin.isProcessing
    /\ fin.value \in ExampleQueries


(* An invocation that completed without a cache hit. *)
CompletedMiss(c) == calls[c].pc = "done" /\ ~calls[c].cached.some

(* C36: every invocation that misses the cache invokes store with exactly the
   answer it returns, a degraded answer included, and an answer in the cache
   is what a later hit serves.  An invocation whose synthesize throws misses
   the cache, returns the error response of the catch and never reaches
   store. *)
C36_Original_EveryMissIsStored ==
    /\ \A c \in CallIds :
          CompletedMiss(c) =>
              /\ calls[c].response.some
              /\ calls[c].result.v = Return(calls[c].response.v)
              /\ Issued(c, "embed") = 2
    /\ \A d \in CallIds :
          (calls[d].pc = "done" /\ calls[d].cached.some) =>
              \E i \in 1..Len(index) :
                  /\ index[i].metadata.answer = calls[d].cached.v.answer
                  /\ calls[d].cached.v.score >= SIMILARITY_THRESHOLD
                  /\ calls[d].result.v.value.answer = index[i].metadata.answer

(* The first query missed an empty cache; its provider resolved with data
   that cannot be serialized and synthesize threw: the error response was
   returned and store was never called. *)
C36_Witness ==
    /\ CompletedMiss(1)
    /\ calls[1].srch = "miss"
    /\ calls[1].prov = "cyclic"
    /\ calls[1].response = None
    /\ calls[1].result.v.value.k = "errorResponse"
    /\ Issued(1, "embed") = 1
    /\ index = <<>>


(* C37: the tag stored with a cache entry is 'none' when the query had no
   target and the answer came from generateResponse, and the target
   capability when the query was routed to one, whether its provider
   answered or failed; the 'documentation' tag route gives a missing target
   is therefore never stored for it.  The tag a cache hit shows is the tag of
   an entry of the index, the one stored with the answer it serves. *)
C37_StoredTagIsTheTarget ==
    /\ [][\A c \in CallIds :
            (calls[c].pc = "insert" /\ calls'[c].sto = "stored") =>
                LET e == index'[Len(index')]
                    target == calls[c].intent.v.targetMCP
                IN  /\ Len(index') = Len(index) + 1
                    /\ e.metadata.question = calls[c].q
                    /\ target = NULL => e.metadata.mcpSource = "none"
                    /\ target \in Caps => e.metadata.mcpSource = target]_vars
    /\ [](\A d \in CallIds :
            calls[d].cached.some =>
                /\ \E i \in 1..Len(index) :
                      /\ index[i].metadata.mcpSource = calls[d].cached.v.mcpSource
                      /\ index[i].metadata.answer = calls[d].cached.v.answer
                /\ calls[d].pc = "done" =>
                      calls[d].result.v.value.source = calls[d].cached.v.mcpSource)

(* The first query was routed to the bindings capability, whose provider
   failed; its answer was stored under 'bindings', and the second query was
   served that entry with that tag. *)
C37_Witness ==
    /\ calls[1].intent.some
    /\ calls[1].intent.v.targetMCP = "bindings"
    /\ calls[1].prov = "throw"
    /\ calls[1].sto = "stored"
    /\ Len(index) = 1
    /\ index[1].metadata.mcpSource = "bindings"
    /\ calls[2].pc = "done"
    /\ calls[2].cached.some
    /\ calls[2].result.v.value.source = "bindings"


(* C38: every Intent classifyIntent returns has type general exactly when it
   has no target; with a target its type is error_logs, how_to or
   list_resources and INTENT_TO_MCP_MAP sends that type to that target; its
   confidence is 0.9, 0.5 or 0.3.  For a selected name that the lookup
   tables inherit from Object.prototype, type and target are both the
   inherited function. *)
C38_Original_IntentIsWellFormed ==
    fout.k = "classify" =>
        LET intent == fout.intent
        IN  /\ (intent.type = "general") <=> (intent.targetMCP = NULL)
            /\ intent.targetMCP # NULL =>
                   /\ intent.type \in {"error_logs", "how_to", "list_resources"}
                   /\ INTENT_TO_MCP_MAP[intent.type] = intent.targetMCP
            /\ intent.confidence \in {9, 5, 3}

(* The oracle selected the name constructor: the Intent has confidence 0.9
   and the Object function for its type and for its target. *)
C38_Witness ==
    /\ fout.k = "classify"
    /\ fin.kind = "ok"
    /\ Len(fin.tool_calls) >= 1
    /\ fin.tool_calls[1].name = "constructor"
    /\ fout.intent.type = FnObject
    /\ fout.intent.targetMCP = FnObject
    /\ fout.intent.confidence = 9


(* An invocation whose intent had a target and whose route has resolved. *)
Routed(c) ==
    /\ calls[c].intent.some
    /\ Truthy(calls[c].intent.v.targetMCP)
    /\ calls[c].pc # "route"

(* A message of the oracle's input that holds the text of the query: the
   user message, or the backend-data note of data that echo the query. *)
Carries(m, q) ==
    \/ m.content = q
    \/ IF IsText(m.content) THEN FALSE
       ELSE IF m.content.k # "mcpResponse" THEN FALSE
       ELSE IF m.content.json.data.k # "mock" THEN FALSE
       ELSE m.content.json.data.query = q

(* The messages a routed invocation that awaits the oracle has sent it. *)
SentMessages(c) == synthesizeMessages(calls[c].q, calls[c].mcpData, calls[c].context).value

(* C39 as stated: the context handed to synthesize is built from the history
   before the current query's messages are appended, and the current query
   reaches the generation oracle only as the final user message.  The data
   of a provider that answered hold the query, and the backend-data note
   hands them to the oracle as well. *)
C39_Original_QueryOnlyAsUserMessage ==
    \A c \in CallIds :
        (Routed(c) /\ calls[c].pc = "synthesize") =>
            /\ calls[c].context = getConversationContext(calls[c].pre.v)
            /\ History(calls[c].sid) = calls[c].pre.v.conversationHistory
            /\ LET m == SentMessages(c)
               IN  \A j \in 1..Len(m) : Carries(m[j], calls[c].q) <=> j = Len(m)

(* C39: the context handed to synthesize is built from the history as it was
   when the invocation began; while the oracle is awaited the history has
   none of the invocation's messages; the query is the final user message,
   and it is also in the backend-data note exactly when a provider
   answered. *)
C39_ContextPrecedesOwnTurn ==
    \A c \in CallIds :
        Routed(c) =>
            /\ calls[c].context = getConversationContext(calls[c].pre.v)
            /\ calls[c].pc = "synthesize" =>
                  /\ History(calls[c].sid) = calls[c].pre.v.conversationHistory
                  /\ LET m == SentMessages(c)
                     IN  /\ m[Len(m)] = Message("user", calls[c].q)
                         /\ \A j \in 1..(Len(m) - 1) :
                               Carries(m[j], calls[c].q) <=>
                                   (m[j].content.k = "mcpResponse" /\ calls[c].prov = "ok")
                         /\ calls[c].prov = "ok" =>
                               \E j \in 1..(Len(m) - 1) : Carries(m[j], calls[c].q)

(* A second query was routed after a first was answered: its context holds
   the two messages of the first turn, its provider answered, and the oracle
   is awaited with the query as the user message and inside the data. *)
C39_Witness ==
    /\ calls[2].pc = "synthesize"
    /\ Routed(2)
    /\ Len(calls[2].context) = 2
    /\ calls[2].prov = "ok"
    /\ calls[2].mcpData.query = calls[2].q
    /\ Len(SentMessages(2)) = 4
    /\ Len(History(calls[2].sid)) = 2


====
